---- MODULE Spec2Model ----
(***************************************************************************)
(* Two-pass sprite generation pipeline                                     *)
(* (qwen_edit_lora_video/data_generator.py): a coordinator thread (main)   *)
(* fans a batch of generation calls out to a ThreadPoolExecutor, collects  *)
(* the results in completion order, sorts them by index, persists the      *)
(* successful ones, and then runs a second, dependent batch that uses the  *)
(* persisted first-pass sprites as reference images.                       *)
(***************************************************************************)
EXTENDS Integers, Sequences, FiniteSets, TLC

(***************************************************************************)
(* Bounds of the model.                                                    *)
(***************************************************************************)
\* largest number of configured character prompts in a run
MaxTasks == 2
\* number of background colours the random choice draws from
NumBackgrounds == 2
\* number of costume variants per character type the random choice draws from
NumVariants == 1
\* largest value of the millisecond clock read by time.time()
MaxTime == 0
\* largest number of words in a made-up subject text given to the matcher
MaxWords == 2
\* largest number of sprite sheets the converter finds
MaxSheets == 2
\* largest side, in pixels, of a small sprite sheet
MaxSide == 3
\* largest number of tasks of a batch when only the tasks are counted
MaxBatch == 11
\* number of the aspect ratios the single-pass generator draws from
NumAspects == 2

\* the marker for an absent dictionary key / Python None; every value that
\* can be absent is a non-empty tuple
NONE == << >>

(***************************************************************************)
(* Text tables.  A text is a sequence of one-character strings.            *)
(***************************************************************************)
CHARACTER_PROMPTS ==
  << <<"K","n","i","g","h","t"," ","i","n"," ","s","i","l","v","e","r"," ","a","r","m","o","r"," ","h","o","l","d","i","n","g"," ","a"," ","s","w","o","r","d"," ","a","n","d"," ","s","h","i","e","l","d">>,
     <<"W","i","z","a","r","d"," ","i","n"," ","p","u","r","p","l","e"," ","r","o","b","e","s"," ","w","i","t","h"," ","p","o","i","n","t","e","d"," ","h","a","t"," ","a","n","d"," ","s","t","a","f","f">>,
     <<"R","o","g","u","e"," ","i","n"," ","d","a","r","k"," ","l","e","a","t","h","e","r"," ","a","r","m","o","r"," ","w","i","t","h"," ","d","u","a","l"," ","d","a","g","g","e","r","s">>,
     <<"A","r","c","h","e","r"," ","i","n"," ","g","r","e","e","n"," ","c","l","o","a","k"," ","w","i","t","h"," ","b","o","w"," ","a","n","d"," ","q","u","i","v","e","r">>,
     <<"B","a","r","b","a","r","i","a","n"," ","w","a","r","r","i","o","r"," ","w","i","t","h"," ","b","a","t","t","l","e"," ","a","x","e"," ","a","n","d"," ","f","u","r"," ","c","l","o","t","h","i","n","g">>,
     <<"M","a","g","e"," ","i","n"," ","b","l","u","e"," ","r","o","b","e","s"," ","w","i","t","h"," ","g","l","o","w","i","n","g"," ","o","r","b">>,
     <<"P","a","l","a","d","i","n"," ","i","n"," ","g","o","l","d","e","n"," ","a","r","m","o","r"," ","w","i","t","h"," ","h","o","l","y"," ","s","y","m","b","o","l">>,
     <<"N","i","n","j","a"," ","i","n"," ","b","l","a","c","k"," ","o","u","t","f","i","t"," ","w","i","t","h"," ","k","a","t","a","n","a">>,
     <<"P","i","r","a","t","e"," ","w","i","t","h"," ","e","y","e","p","a","t","c","h",","," ","t","r","i","c","o","r","n"," ","h","a","t"," ","a","n","d"," ","c","u","t","l","a","s","s">>,
     <<"S","a","m","u","r","a","i"," ","i","n"," ","t","r","a","d","i","t","i","o","n","a","l"," ","a","r","m","o","r"," ","w","i","t","h"," ","k","a","t","a","n","a">>,
     <<"V","i","k","i","n","g"," ","w","i","t","h"," ","h","o","r","n","e","d"," ","h","e","l","m","e","t"," ","a","n","d"," ","a","x","e">>,
     <<"C","y","b","e","r"," ","w","a","r","r","i","o","r"," ","i","n"," ","f","u","t","u","r","i","s","t","i","c"," ","a","r","m","o","r"," ","w","i","t","h"," ","l","a","s","e","r"," ","g","u","n">>,
     <<"S","p","a","c","e"," ","m","a","r","i","n","e"," ","i","n"," ","p","o","w","e","r"," ","a","r","m","o","r"," ","w","i","t","h"," ","r","i","f","l","e">>,
     <<"R","o","b","o","t"," ","c","h","a","r","a","c","t","e","r"," ","w","i","t","h"," ","m","e","c","h","a","n","i","c","a","l"," ","l","i","m","b","s">>,
     <<"E","l","f"," ","r","a","n","g","e","r"," ","w","i","t","h"," ","l","o","n","g","b","o","w"," ","a","n","d"," ","n","a","t","u","r","e","-","t","h","e","m","e","d"," ","c","l","o","t","h","i","n","g">>,
     <<"D","w","a","r","f"," ","w","a","r","r","i","o","r"," ","w","i","t","h"," ","h","a","m","m","e","r"," ","a","n","d"," ","h","e","a","v","y"," ","a","r","m","o","r">>,
     <<"A","l","i","e","n"," ","c","h","a","r","a","c","t","e","r"," ","w","i","t","h"," ","t","e","n","t","a","c","l","e","s"," ","a","n","d"," ","a","d","v","a","n","c","e","d"," ","t","e","c","h","n","o","l","o","g","y">>,
     <<"S","t","e","a","m","p","u","n","k"," ","i","n","v","e","n","t","o","r"," ","w","i","t","h"," ","g","o","g","g","l","e","s"," ","a","n","d"," ","m","e","c","h","a","n","i","c","a","l"," ","g","a","d","g","e","t","s">>,
     <<"M","o","n","k"," ","i","n"," ","s","i","m","p","l","e"," ","r","o","b","e","s"," ","w","i","t","h"," ","s","t","a","f","f">>,
     <<"N","e","c","r","o","m","a","n","c","e","r"," ","i","n"," ","d","a","r","k"," ","r","o","b","e","s"," ","w","i","t","h"," ","s","k","u","l","l"," ","s","t","a","f","f">>,
     <<"D","r","u","i","d"," ","i","n"," ","n","a","t","u","r","e"," ","r","o","b","e","s"," ","w","i","t","h"," ","s","t","a","f","f"," ","a","n","d"," ","a","n","i","m","a","l"," ","c","o","m","p","a","n","i","o","n">>,
     <<"B","a","r","d"," ","w","i","t","h"," ","l","u","t","e"," ","a","n","d"," ","m","a","g","i","c","a","l"," ","m","u","s","i","c","a","l"," ","n","o","t","e","s">>,
     <<"C","l","e","r","i","c"," ","i","n"," ","w","h","i","t","e"," ","r","o","b","e","s"," ","w","i","t","h"," ","h","o","l","y"," ","s","y","m","b","o","l"," ","a","n","d"," ","h","e","a","l","i","n","g"," ","l","i","g","h","t">>,
     <<"A","s","s","a","s","s","i","n"," ","i","n"," ","s","h","a","d","o","w"," ","c","l","o","a","k"," ","w","i","t","h"," ","h","i","d","d","e","n"," ","b","l","a","d","e","s">>,
     <<"B","e","a","s","t","m","a","s","t","e","r"," ","w","i","t","h"," ","t","a","m","e","d"," ","w","o","l","f"," ","a","n","d"," ","h","u","n","t","i","n","g"," ","g","e","a","r">>,
     <<"A","l","c","h","e","m","i","s","t"," ","w","i","t","h"," ","p","o","t","i","o","n"," ","b","e","l","t"," ","a","n","d"," ","g","l","o","w","i","n","g"," ","f","l","a","s","k","s">>,
     <<"G","u","n","s","l","i","n","g","e","r"," ","w","i","t","h"," ","r","e","v","o","l","v","e","r"," ","a","n","d"," ","c","o","w","b","o","y"," ","h","a","t">>,
     <<"S","h","a","m","a","n"," ","w","i","t","h"," ","t","o","t","e","m"," ","s","t","a","f","f"," ","a","n","d"," ","t","r","i","b","a","l"," ","f","e","a","t","h","e","r","s">>,
     <<"D","e","m","o","n"," ","h","u","n","t","e","r"," ","w","i","t","h"," ","c","r","o","s","s","b","o","w"," ","a","n","d"," ","h","o","l","y"," ","w","a","t","e","r"," ","v","i","a","l","s">>,
     <<"T","i","m","e"," ","t","r","a","v","e","l","e","r"," ","w","i","t","h"," ","f","u","t","u","r","i","s","t","i","c"," ","c","h","r","o","n","o","m","e","t","e","r"," ","a","n","d"," ","p","o","r","t","a","l"," ","d","e","v","i","c","e">>,
     <<"E","l","e","m","e","n","t","a","l"," ","m","a","g","e"," ","w","i","t","h"," ","s","w","i","r","l","i","n","g"," ","f","i","r","e"," ","a","n","d"," ","i","c","e"," ","o","r","b","s">>,
     <<"S","h","a","d","o","w"," ","a","s","s","a","s","s","i","n"," ","b","l","e","n","d","i","n","g"," ","w","i","t","h"," ","d","a","r","k","n","e","s","s"," ","a","n","d"," ","d","u","a","l"," ","k","a","t","a","n","a","s">>,
     <<"C","r","y","s","t","a","l"," ","m","a","g","e"," ","w","i","t","h"," ","f","l","o","a","t","i","n","g"," ","g","l","o","w","i","n","g"," ","c","r","y","s","t","a","l","s">>,
     <<"M","e","c","h"," ","p","i","l","o","t"," ","i","n"," ","p","o","w","e","r","e","d"," ","e","x","o","s","u","i","t"," ","w","i","t","h"," ","p","l","a","s","m","a"," ","c","a","n","n","o","n">>,
     <<"P","h","o","e","n","i","x"," ","w","a","r","r","i","o","r"," ","w","i","t","h"," ","f","i","r","e"," ","w","i","n","g","s"," ","a","n","d"," ","f","l","a","m","i","n","g"," ","s","w","o","r","d">> >>

COSTUME_KEYS ==
  << <<"K","n","i","g","h","t">>,
     <<"W","i","z","a","r","d">>,
     <<"R","o","g","u","e">>,
     <<"A","r","c","h","e","r">>,
     <<"B","a","r","b","a","r","i","a","n">>,
     <<"M","a","g","e">>,
     <<"P","a","l","a","d","i","n">>,
     <<"N","i","n","j","a">>,
     <<"P","i","r","a","t","e">>,
     <<"S","a","m","u","r","a","i">>,
     <<"V","i","k","i","n","g">>,
     <<"C","y","b","e","r">>,
     <<"S","p","a","c","e">>,
     <<"R","o","b","o","t">>,
     <<"E","l","f">>,
     <<"D","w","a","r","f">>,
     <<"A","l","i","e","n">>,
     <<"S","t","e","a","m","p","u","n","k">>,
     <<"M","o","n","k">>,
     <<"N","e","c","r","o","m","a","n","c","e","r">>,
     <<"D","r","u","i","d">>,
     <<"B","a","r","d">>,
     <<"C","l","e","r","i","c">>,
     <<"A","s","s","a","s","s","i","n">>,
     <<"B","e","a","s","t","m","a","s","t","e","r">>,
     <<"A","l","c","h","e","m","i","s","t">>,
     <<"G","u","n","s","l","i","n","g","e","r">>,
     <<"S","h","a","m","a","n">>,
     <<"D","e","m","o","n">>,
     <<"T","i","m","e">>,
     <<"E","l","e","m","e","n","t","a","l">>,
     <<"S","h","a","d","o","w">>,
     <<"C","r","y","s","t","a","l">>,
     <<"M","e","c","h">>,
     <<"P","h","o","e","n","i","x">> >>

\* a subject that is not in the built-in list and contains no category key
FRIENDLY_DOG == <<"a"," ","f","r","i","e","n","d","l","y"," ","d","o","g">>

\* every subject text the model can put in a run's prompt list
SUBJECTS == CHARACTER_PROMPTS \o << FRIENDLY_DOG >>

\* the subjects a run's prompt list is drawn from (positions in SUBJECTS):
\* a double match (Robot, Mech), no match, and a single match (Knight)
SubjectPool == << 14, 36, 1 >>

UPPER == <<"A","B","C","D","E","F","G","H","I","J","K","L","M",
           "N","O","P","Q","R","S","T","U","V","W","X","Y","Z">>
LOWER == <<"a","b","c","d","e","f","g","h","i","j","k","l","m",
           "n","o","p","q","r","s","t","u","v","w","x","y","z">>

\* str.lower() on one character
LowerChar(c) ==
  IF \E n \in 1..Len(UPPER) : UPPER[n] = c
  THEN LOWER[CHOOSE n \in 1..Len(UPPER) : UPPER[n] = c]
  ELSE c

\* str.lower()
Lower(t) == [n \in 1..Len(t) |-> LowerChar(t[n])]

\* the Python test `needle in haystack` on texts
Contains(haystack, needle) ==
  \E off \in 0..(Len(haystack) - Len(needle)) :
     \A n \in 1..Len(needle) : haystack[off + n] = needle[n]

\* `for char_type in COSTUME_CHANGES.keys()` from the n-th key on: the first
\* key whose lower-cased form is in prompt_lower is returned, and None (0)
\* when the keys are exhausted
\* the loop stops before the last key of the table
RECURSIVE ScanKeys_SkipsLast(_, _)
ScanKeys_SkipsLast(prompt_lower, n) ==
  IF n >= Len(COSTUME_KEYS) THEN 0
  ELSE IF Contains(prompt_lower, Lower(COSTUME_KEYS[n])) THEN n
  ELSE ScanKeys_SkipsLast(prompt_lower, n + 1)

RECURSIVE ScanKeys(_, _)
ScanKeys(prompt_lower, n) ==
  IF n > Len(COSTUME_KEYS) THEN 0
  ELSE IF Contains(prompt_lower, Lower(COSTUME_KEYS[n])) THEN n
  ELSE ScanKeys(prompt_lower, n + 1)

\* the longest key that is in the prompt, instead of the first
get_character_type_Longest(character_prompt) ==
  LET prompt_lower == Lower(character_prompt)
      hits == { n \in 1..Len(COSTUME_KEYS) :
                  Contains(prompt_lower, Lower(COSTUME_KEYS[n])) }
  IN  IF hits = {} THEN 0
      ELSE CHOOSE n \in hits :
              \A k \in hits : Len(COSTUME_KEYS[k]) <= Len(COSTUME_KEYS[n])

\* get_character_type: the position in COSTUME_KEYS of the matched key; 0
\* stands for None
get_character_type(character_prompt) == ScanKeys(Lower(character_prompt), 1)

\* get_character_type of every subject, evaluated once
CharacterType == [s \in 1..Len(SUBJECTS) |-> get_character_type(SUBJECTS[s])]

\* random.choice(BACKGROUND_COLORS)
BACKGROUND_COLORS == { << "bg", c >> : c \in 1..NumBackgrounds }

\* COSTUME_CHANGES[char_type]: variant v of a character type is <<char_type, v>>
COSTUME_CHANGES(char_type) == { <<char_type, v>> : v \in 1..NumVariants }

\* the generic costume used when no character type matches
GENERIC_COSTUME == <<0, 0>>


(***************************************************************************)
(* Helpers of the coordinator.                                             *)
(***************************************************************************)
\* the concurrency cap of min(len(CHARACTER_PROMPTS), 10)
MAX_CONCURRENCY == 10

Min(a, b) == IF a <= b THEN a ELSE b

\* the image reference replicate.run returns for the call of a pass and index
Output(pass, index) == << "img", pass, index >>

\* str(e) of a failed generation call
ERROR == << "generation error" >>

\* insert r into a list sorted by index, after every entry whose index is not
\* larger (list.sort is stable)
RECURSIVE Insert(_, _)
Insert(r, sorted) ==
  IF sorted = << >> THEN << r >>
  ELSE IF sorted[Len(sorted)]["index"] <= r["index"]
       THEN Append(sorted, r)
       ELSE Append(Insert(r, SubSeq(sorted, 1, Len(sorted) - 1)),
                   sorted[Len(sorted)])

\* the list as it is without the sort
SortByIndex_Unsorted(results) == results

\* results.sort(key=lambda x: x["index"])
RECURSIVE SortByIndex(_)
SortByIndex(results) ==
  IF results = << >> THEN << >>
  ELSE Insert(results[Len(results)],
              SortByIndex(SubSeq(results, 1, Len(results) - 1)))

\* the positions of the futures of a batch that are in a given state
InState(futures, st) == { n \in 1..Len(futures) : futures[n].state = st }

\* the result of a future arrives after a result of a larger index
Inversion(results, future) ==
  \E k \in 1..Len(results) : results[k]["index"] > future["index"]

\* a submitted task is started whatever the number of running calls
IdleWorker_Always(running, workers) == TRUE

\* the executor has a thread that is not running a call, or may still
\* create one: it never has more than max_workers threads
IdleWorker(running, workers) == running < workers

\* a worker thread takes the oldest work item off the executor's queue, and
\* the pool never has more than max_workers threads
CanTake(futures, n, workers) ==
  /\ n \in InState(futures, "PENDING")
  /\ \A m \in InState(futures, "PENDING") : n <= m
  /\ IdleWorker(Cardinality(InState(futures, "RUNNING")), workers)

\* ThreadPoolExecutor(max_workers=n) raises ValueError unless n > 0
ThreadPoolExecutor(n) == n > 0

\* the values of pc after an exception has left main
Raised == { "ValueError", "OSError" }

\* where main goes when it opens `with ThreadPoolExecutor(...)` to submit a
\* batch of batch_len tasks: the constructor may raise, and a submission
\* loop over an empty batch goes straight on to as_completed
EnterBatch(workers, batch_len, submit_pc, collect_pc) ==
  IF ~ThreadPoolExecutor(workers) THEN "ValueError"
  ELSE IF batch_len = 0 THEN collect_pc
  ELSE submit_pc

\* the base name does not carry the index
BaseName_TimestampOnly(timestamp, index) == << timestamp, 0, "base" >>

\* f"{timestamp}_{result['index']:03d}_base"
BaseName(timestamp, index) == << timestamp, index, "base" >>

\* the dictionary returned by a successful generate_base_sprite
BaseSuccess(index, character_prompt, bg_color) ==
  [ index |-> index, character_prompt |-> character_prompt,
    costume_description |-> NONE, background_color |-> bg_color,
    url |-> Output(1, index), success |-> TRUE, error |-> NONE,
    base_filename |-> NONE ]

\* the dictionary returned by generate_base_sprite when the call raised
BaseFailure(index, character_prompt) ==
  [ index |-> index, character_prompt |-> character_prompt,
    costume_description |-> NONE, background_color |-> NONE,
    url |-> NONE, success |-> FALSE, error |-> ERROR,
    base_filename |-> NONE ]

\* the dictionary returned by a successful generate_costume_change
CostumeSuccess(index, character_prompt, costume_description, bg_color) ==
  [ index |-> index, character_prompt |-> character_prompt,
    costume_description |-> costume_description,
    background_color |-> bg_color,
    url |-> Output(2, index), success |-> TRUE, error |-> NONE,
    base_filename |-> NONE ]

\* the dictionary returned by generate_costume_change when the call raised
CostumeFailure(index, character_prompt, costume_description) ==
  [ index |-> index, character_prompt |-> character_prompt,
    costume_description |-> costume_description,
    background_color |-> NONE,
    url |-> NONE, success |-> FALSE, error |-> ERROR,
    base_filename |-> NONE ]

\* the result slot of a future that has not finished
NoResult == BaseFailure(-1, 0)

(***************************************************************************)
(* State.                                                                  *)
(***************************************************************************)
VARIABLES
  prompts,                \* CHARACTER_PROMPTS of the run (positions in SUBJECTS)
  pc,                     \* where the coordinator (main) is
  max_workers,            \* main's max_workers
  base_futures,           \* futures of the first pass, in submission order
  base_results,           \* main's base_results
  base_sprites,           \* main's base_sprites
  costume_futures,        \* futures of the second pass, in submission order
  costume_change_results, \* main's costume_change_results
  saved_costume_changes,  \* main's saved_costume_changes
  cursor,                 \* position of the download loop in its result list
  base_name,              \* base_name of the artifact being written, or NONE
  now,                    \* the millisecond clock
  input_dir,              \* files in INPUT_DIR
  output_dir,             \* files in OUTPUT_SPRITES_DIR
  out_of_order,           \* history: as_completed of the current batch has
                          \* yielded a result after one of a larger index
  m_prompt,               \* get_character_type called alone: its argument
  m_type,                 \* ... and what it returned (PENDING before the call)
  sprite_sheets,          \* sprite_to_gif.main: the list the glob returned
  gif_pc,                 \* ... where that main is
  sheet,                  \* ... position of its loop in sprite_sheets
  converted_count,        \* ... its converted_count
  skipped_count,          \* ... its skipped_count
  gif_images,             \* files in GIF_IMAGES_DIR
  img_size,               \* size of the image the last call opened, or NONE
  frames,                 \* frames the last call split off
  gif,                    \* animation the last call encoded, or NONE
  pool_pc,                \* a batch run by counts: where main is
  pool_pass,              \* ... the pass (1 or 2) the batch belongs to
  pool_tasks,             \* ... number of tasks of the batch
  pool_max_workers,       \* ... main's max_workers
  pool_submitted,         \* ... tasks submitted to the executor
  pool_running,           \* ... worker calls that are running
  pool_finished,          \* ... worker calls that have returned
  img_prompts,            \* single-pass generator: len(PROMPTS)
  img_pc,                 \* ... where its main is
  img_max_workers,        \* ... its max_workers
  img_futures,            \* ... its futures, in submission order
  img_results,            \* ... its list `results`
  saved_count,            \* ... its saved_count
  img_cursor,             \* ... position of its download loop in results
  img_base_name,          \* ... base_name of the artifact being written
  img_now,                \* ... the millisecond clock
  generated_images,       \* ... files in its OUTPUT_DIR
  img_downloads           \* history: indices download_image was called for

vars == << prompts, pc, max_workers, base_futures, base_results, base_sprites,
           costume_futures, costume_change_results, saved_costume_changes,
           cursor, base_name, now, input_dir, output_dir, out_of_order,
           m_prompt, m_type, sprite_sheets, gif_pc, sheet, converted_count,
           skipped_count, gif_images, img_size, frames, gif, pool_pc,
           pool_pass, pool_tasks, pool_max_workers, pool_submitted,
           pool_running, pool_finished, img_prompts, img_pc, img_max_workers,
           img_futures, img_results, saved_count, img_cursor, img_base_name,
           img_now, generated_images, img_downloads >>

\* the state of the two-pass run
pipeline == << prompts, pc, max_workers, base_futures, base_results,
               base_sprites, costume_futures, costume_change_results,
               saved_costume_changes, cursor, base_name, now, input_dir,
               output_dir, out_of_order >>

\* the state of get_character_type called alone
matcher == << m_prompt, m_type >>

\* the state of the sprite sheet converter
decoder == << sprite_sheets, gif_pc, sheet, converted_count, skipped_count,
              gif_images, img_size, frames, gif >>

\* the state of a batch run by counts
pool == << pool_pc, pool_pass, pool_tasks, pool_max_workers, pool_submitted,
           pool_running, pool_finished >>

\* the state of the single-pass generator
single == << img_prompts, img_pc, img_max_workers, img_futures, img_results,
             saved_count, img_cursor, img_base_name, img_now,
             generated_images, img_downloads >>

\* everything that is not the two-pass run
offline == << matcher, decoder, pool, single >>

\* a call that has not returned
PENDING == -1

\* get_character_type is not being called alone
MatcherIdle == m_prompt = << >> /\ m_type = PENDING

\* the sprite sheet converter has not been started
DecoderIdle ==
  /\ sprite_sheets = << >>
  /\ gif_pc = "INIT"
  /\ sheet = 0
  /\ converted_count = 0
  /\ skipped_count = 0
  /\ gif_images = {}
  /\ img_size = NONE
  /\ frames = << >>
  /\ gif = NONE

\* the single-pass generator has not been started
SingleIdle ==
  /\ img_prompts = 0
  /\ img_pc = "INIT"
  /\ img_max_workers = 0
  /\ img_futures = << >>
  /\ img_results = << >>
  /\ saved_count = 0
  /\ img_cursor = 0
  /\ img_base_name = NONE
  /\ img_now = 0
  /\ generated_images = {}
  /\ img_downloads = {}

\* no batch is run by counts
PoolIdle ==
  /\ pool_pc = "INIT"
  /\ pool_pass = 1
  /\ pool_tasks = 0
  /\ pool_max_workers = 0
  /\ pool_submitted = 0
  /\ pool_running = 0
  /\ pool_finished = 0

firstPass == << base_futures, base_results >>
secondPass == << costume_futures, costume_change_results >>
files == << input_dir, output_dir >>

\* the prompt list of a run: n subjects, taken from the pool in turn
PromptList(n) ==
  [ i \in 1..n |-> SubjectPool[((i - 1) % Len(SubjectPool)) + 1] ]

Init ==
  /\ \E n \in 0..MaxTasks : prompts = PromptList(n)
  /\ pc = "INIT"
  /\ max_workers = 0
  /\ base_futures = << >>
  /\ base_results = << >>
  /\ base_sprites = << >>
  /\ costume_futures = << >>
  /\ costume_change_results = << >>
  /\ saved_costume_changes = 0
  /\ cursor = 0
  /\ base_name = NONE
  /\ now = 0
  /\ input_dir = {}
  /\ output_dir = {}
  /\ out_of_order = FALSE
  /\ MatcherIdle
  /\ DecoderIdle
  /\ PoolIdle
  /\ SingleIdle

(***************************************************************************)
(* First pass.                                                             *)
(***************************************************************************)
\* main, up to the creation of the first executor
Main_Start ==
  /\ pc = "INIT"
  /\ max_workers' = Min(Len(prompts), MAX_CONCURRENCY)
  /\ pc' = EnterBatch(max_workers', Len(prompts), "P1_SUBMIT", "P1_COLLECT")
  /\ UNCHANGED out_of_order
  /\ UNCHANGED offline
  /\ UNCHANGED << prompts, firstPass, base_sprites, secondPass,
                  saved_costume_changes, cursor, base_name, now, files >>

\* executor.submit(generate_base_sprite, prompt, i) for the next prompt
Main_SubmitBase ==
  /\ pc = "P1_SUBMIT"
  /\ LET i == Len(base_futures)
     IN  /\ base_futures' = Append(base_futures,
                [ index |-> i, character_prompt |-> prompts[i + 1],
                  state |-> "PENDING", yielded |-> FALSE,
                  bg_color |-> NONE, result |-> NoResult ])
         /\ pc' = IF i + 1 = Len(prompts) THEN "P1_COLLECT" ELSE "P1_SUBMIT"
  /\ UNCHANGED out_of_order
  /\ UNCHANGED offline
  /\ UNCHANGED << prompts, max_workers, base_results, base_sprites, secondPass,
                  saved_costume_changes, cursor, base_name, now, files >>

\* a worker thread enters generate_base_sprite and draws the background
Worker_StartBase(n) ==
  /\ CanTake(base_futures, n, max_workers)
  /\ \E bg \in BACKGROUND_COLORS :
        base_futures' = [base_futures EXCEPT ![n].state = "RUNNING",
                                             ![n].bg_color = bg]
  /\ UNCHANGED out_of_order
  /\ UNCHANGED offline
  /\ UNCHANGED << prompts, pc, max_workers, base_results, base_sprites,
                  secondPass, saved_costume_changes, cursor, base_name, now,
                  files >>

\* replicate.run returns an image reference
Worker_BaseSucceeds(n) ==
  /\ n \in InState(base_futures, "RUNNING")
  /\ base_futures' = [base_futures EXCEPT
        ![n].state = "FINISHED",
        ![n].result = BaseSuccess(base_futures[n].index,
                                  base_futures[n].character_prompt,
                                  base_futures[n].bg_color)]
  /\ UNCHANGED out_of_order
  /\ UNCHANGED offline
  /\ UNCHANGED << prompts, pc, max_workers, base_results, base_sprites,
                  secondPass, saved_costume_changes, cursor, base_name, now,
                  files >>

\* replicate.run raises and nothing catches it: the exception leaves the
\* batch when main asks for the future's result
Worker_BaseFails_Uncaught(n) ==
  /\ n \in InState(base_futures, "RUNNING")
  /\ base_futures' = [base_futures EXCEPT
        ![n].state = "FINISHED",
        ![n].bg_color = NONE,
        ![n].result = BaseFailure(base_futures[n].index,
                                  base_futures[n].character_prompt)]
  /\ pc' = "OSError"
  /\ UNCHANGED out_of_order
  /\ UNCHANGED offline
  /\ UNCHANGED << prompts, max_workers, base_results, base_sprites,
                  secondPass, saved_costume_changes, cursor, base_name, now,
                  files >>

\* the failed call is put back on the queue to be run again
Worker_BaseFails_Retry(n) ==
  /\ n \in InState(base_futures, "RUNNING")
  /\ base_futures' = [base_futures EXCEPT ![n].state = "PENDING"]
  /\ UNCHANGED out_of_order
  /\ UNCHANGED offline
  /\ UNCHANGED << prompts, pc, max_workers, base_results, base_sprites,
                  secondPass, saved_costume_changes, cursor, base_name, now,
                  files >>

\* replicate.run raises, and the except clause returns the failure record
Worker_BaseFails(n) ==
  /\ n \in InState(base_futures, "RUNNING")
  /\ base_futures' = [base_futures EXCEPT
        ![n].state = "FINISHED",
        ![n].bg_color = NONE,
        ![n].result = BaseFailure(base_futures[n].index,
                                  base_futures[n].character_prompt)]
  /\ UNCHANGED out_of_order
  /\ UNCHANGED offline
  /\ UNCHANGED << prompts, pc, max_workers, base_results, base_sprites,
                  secondPass, saved_costume_changes, cursor, base_name, now,
                  files >>

\* one iteration of `for future in as_completed(future_to_index)`
Main_CollectBase(n) ==
  /\ pc = "P1_COLLECT"
  /\ n \in InState(base_futures, "FINISHED")
  /\ ~base_futures[n].yielded
  /\ base_futures' = [base_futures EXCEPT ![n].yielded = TRUE]
  /\ base_results' = Append(base_results, base_futures[n].result)
  /\ out_of_order' = (out_of_order \/ Inversion(base_results, base_futures[n]))
  /\ UNCHANGED offline
  /\ UNCHANGED << prompts, pc, max_workers, base_sprites, secondPass,
                  saved_costume_changes, cursor, base_name, now, files >>

\* the collection loop ends as soon as one future has been yielded
Main_SortBase_Early ==
  /\ pc = "P1_COLLECT"
  /\ \E n \in 1..Len(base_futures) : base_futures[n].yielded
  /\ base_results' = SortByIndex(base_results)
  /\ cursor' = 1
  /\ pc' = "P1_PERSIST"
  /\ UNCHANGED out_of_order
  /\ UNCHANGED offline
  /\ UNCHANGED << prompts, max_workers, base_futures, base_sprites, secondPass,
                  saved_costume_changes, base_name, now, files >>

\* as_completed is exhausted: the with block ends and base_results is sorted
Main_SortBase ==
  /\ pc = "P1_COLLECT"
  /\ \A n \in 1..Len(base_futures) : base_futures[n].yielded
  /\ base_results' = SortByIndex(base_results)
  /\ cursor' = 1
  /\ pc' = "P1_PERSIST"
  /\ UNCHANGED out_of_order
  /\ UNCHANGED offline
  /\ UNCHANGED << prompts, max_workers, base_futures, base_sprites, secondPass,
                  saved_costume_changes, base_name, now, files >>

\* int(time.time() * 1000): the clock has not gone back since the last reading
ClockReadings == now..Min(now + 1, MaxTime)

\* download_image: "ok" returns True with the file written; on an exception
\* it returns False, and urlretrieve has left either no file ("failed") or
\* an incomplete one ("partial")
DownloadOutcomes == { "ok", "failed", "partial" }

\* the directory after download_image has run for a file name
AfterDownload(dir, name, outcome) ==
  IF outcome \in { "ok", "partial" } THEN dir \cup { << name, "png" >> }
  ELSE dir

\* result.get("background_color", default)
GetBackground(result, default) ==
  IF result.background_color = NONE THEN default ELSE result.background_color

\* the base_sprites entry of a saved first-pass result
Sprite(result, name, default) ==
  [ index |-> result.index, character_prompt |-> result.character_prompt,
    image_path |-> << name, "png" >>, base_filename |-> name,
    url |-> result.url, background_color |-> GetBackground(result, default) ]

\* the download loop records a sprite for a result whose generation failed
Main_SkipBase_Keeps ==
  /\ pc = "P1_PERSIST"
  /\ cursor <= Len(base_results)
  /\ ~base_results[cursor].success
  /\ \E default \in BACKGROUND_COLORS :
        base_sprites' = Append(base_sprites,
           Sprite(base_results[cursor],
                  BaseName(now, base_results[cursor]["index"]), default))
  /\ cursor' = cursor + 1
  /\ UNCHANGED out_of_order
  /\ UNCHANGED offline
  /\ UNCHANGED << prompts, pc, max_workers, firstPass, secondPass,
                  saved_costume_changes, base_name, now, files >>

\* the download loop meets a result whose generation failed
Main_SkipBase ==
  /\ pc = "P1_PERSIST"
  /\ cursor <= Len(base_results)
  /\ ~base_results[cursor].success
  /\ cursor' = cursor + 1
  /\ UNCHANGED out_of_order
  /\ UNCHANGED offline
  /\ UNCHANGED << prompts, pc, max_workers, firstPass, base_sprites,
                  secondPass, saved_costume_changes, base_name, now, files >>

\* the download loop records the sprite even when its download failed
Main_DownloadBase_KeepsFailed ==
  /\ pc = "P1_PERSIST"
  /\ cursor <= Len(base_results)
  /\ base_name = NONE
  /\ base_results[cursor].success
  /\ \E timestamp \in ClockReadings, outcome \in DownloadOutcomes :
        LET name == BaseName(timestamp, base_results[cursor]["index"])
        IN  /\ now' = timestamp
            /\ input_dir' = AfterDownload(input_dir, name, outcome)
            /\ IF outcome = "ok"
               THEN /\ base_name' = name
                    /\ cursor' = cursor
                    /\ base_sprites' = base_sprites
               ELSE /\ base_name' = NONE
                    /\ cursor' = cursor + 1
                    /\ \E default \in BACKGROUND_COLORS :
                          base_sprites' = Append(base_sprites,
                             Sprite(base_results[cursor], name, default))
  /\ UNCHANGED out_of_order
  /\ UNCHANGED offline
  /\ UNCHANGED << prompts, pc, max_workers, firstPass, secondPass,
                  saved_costume_changes, output_dir >>

\* the download loop names the artifact of a successful result and downloads
\* its image
Main_DownloadBase ==
  /\ pc = "P1_PERSIST"
  /\ cursor <= Len(base_results)
  /\ base_name = NONE
  /\ base_results[cursor].success
  /\ \E timestamp \in ClockReadings, outcome \in DownloadOutcomes :
        LET name == BaseName(timestamp, base_results[cursor]["index"])
        IN  /\ now' = timestamp
            /\ input_dir' = AfterDownload(input_dir, name, outcome)
            /\ IF outcome = "ok"
               THEN base_name' = name /\ cursor' = cursor
               ELSE base_name' = NONE /\ cursor' = cursor + 1
  /\ UNCHANGED out_of_order
  /\ UNCHANGED offline
  /\ UNCHANGED << prompts, pc, max_workers, firstPass, base_sprites,
                  secondPass, saved_costume_changes, output_dir >>

\* text_filepath.write_text succeeds and the sprite is recorded
Main_WriteBaseText ==
  /\ pc = "P1_PERSIST"
  /\ base_name # NONE
  /\ input_dir' = input_dir \cup { << base_name, "txt" >> }
  /\ \E default \in BACKGROUND_COLORS :
        base_sprites' = Append(base_sprites,
                               Sprite(base_results[cursor], base_name, default))
  /\ cursor' = cursor + 1
  /\ base_name' = NONE
  /\ UNCHANGED out_of_order
  /\ UNCHANGED offline
  /\ UNCHANGED << prompts, pc, max_workers, firstPass, secondPass,
                  saved_costume_changes, now, output_dir >>

\* text_filepath.write_text raises: nothing in main catches it
Main_WriteBaseTextRaises ==
  /\ pc = "P1_PERSIST"
  /\ base_name # NONE
  /\ \E created \in BOOLEAN :
        input_dir' = IF created THEN input_dir \cup { << base_name, "txt" >> }
                     ELSE input_dir
  /\ pc' = "OSError"
  /\ UNCHANGED out_of_order
  /\ UNCHANGED offline
  /\ UNCHANGED << prompts, max_workers, firstPass, base_sprites, secondPass,
                  saved_costume_changes, cursor, base_name, now, output_dir >>

\* the download loop of the first pass is over
Main_EndBaseLoop ==
  /\ pc = "P1_PERSIST"
  /\ cursor > Len(base_results)
  /\ pc' = "P1_PERSISTED"
  /\ UNCHANGED out_of_order
  /\ UNCHANGED offline
  /\ UNCHANGED << prompts, max_workers, firstPass, base_sprites, secondPass,
                  saved_costume_changes, cursor, base_name, now, files >>

(***************************************************************************)
(* Second pass.                                                            *)
(***************************************************************************)
\* the second executor is created whether or not a sprite was saved
Main_CheckBaseSprites_NoGuard ==
  /\ pc = "P1_PERSISTED"
  /\ pc' = EnterBatch(max_workers, Len(base_sprites),
                      "P2_SUBMIT", "P2_COLLECT")
  /\ out_of_order' = FALSE
  /\ UNCHANGED offline
  /\ UNCHANGED << prompts, max_workers, firstPass, base_sprites, secondPass,
                  saved_costume_changes, cursor, base_name, now, files >>

\* `if not base_sprites: return`, else the second executor is created
Main_CheckBaseSprites ==
  /\ pc = "P1_PERSISTED"
  /\ pc' = IF base_sprites = << >> THEN "DONE"
           ELSE EnterBatch(max_workers, Len(base_sprites),
                           "P2_SUBMIT", "P2_COLLECT")
  /\ out_of_order' = FALSE
  /\ UNCHANGED offline
  /\ UNCHANGED << prompts, max_workers, firstPass, base_sprites, secondPass,
                  saved_costume_changes, cursor, base_name, now, files >>

\* the costumes the second pass may pick for a sprite
\* a subject with a category is given a costume of the category after it
CostumeChoices_NextCategory(sprite) ==
  LET character_type == CharacterType[sprite.character_prompt]
  IN  IF character_type # 0 /\ character_type \in 1..Len(COSTUME_KEYS)
      THEN COSTUME_CHANGES((character_type % Len(COSTUME_KEYS)) + 1)
      ELSE { GENERIC_COSTUME }

\* a subject without a category is given a costume of the first category
CostumeChoices_FirstCategory(sprite) ==
  LET character_type == CharacterType[sprite.character_prompt]
  IN  IF character_type # 0 /\ character_type \in 1..Len(COSTUME_KEYS)
      THEN COSTUME_CHANGES(character_type)
      ELSE COSTUME_CHANGES(1)

\* the costume descriptions main may pick for a sprite
CostumeChoices(sprite) ==
  LET character_type == CharacterType[sprite.character_prompt]
  IN  IF character_type # 0 /\ character_type \in 1..Len(COSTUME_KEYS)
      THEN COSTUME_CHANGES(character_type)
      ELSE { GENERIC_COSTUME }

\* the future is given the image reference of the first sprite
CostumeFuture_FirstSprite(k, sprite, costume_description) ==
  [ index |-> sprite.index, character_prompt |-> sprite.character_prompt,
    base_image_url |-> base_sprites[1].url,
    costume_description |-> costume_description,
    background_color |-> sprite.background_color,
    sprite |-> k, state |-> "PENDING", yielded |-> FALSE,
    bg_color |-> NONE, result |-> NoResult ]

\* the future of generate_costume_change submitted for a sprite
CostumeFuture(k, sprite, costume_description) ==
  [ index |-> sprite.index, character_prompt |-> sprite.character_prompt,
    base_image_url |-> sprite.url,
    costume_description |-> costume_description,
    background_color |-> sprite.background_color,
    sprite |-> k, state |-> "PENDING", yielded |-> FALSE,
    bg_color |-> NONE, result |-> NoResult ]

\* costumes are submitted while the first download loop is still going
Main_SubmitCostume_Pipelined ==
  /\ pc \in { "P1_PERSIST", "P2_SUBMIT" }
  /\ Len(costume_futures) < Len(base_sprites)
  /\ LET k == Len(costume_futures) + 1
     IN  /\ \E costume_description \in CostumeChoices(base_sprites[k]) :
               costume_futures' = Append(costume_futures,
                  CostumeFuture(k, base_sprites[k], costume_description))
         /\ pc' = IF pc = "P2_SUBMIT" /\ k = Len(base_sprites)
                  THEN "P2_COLLECT" ELSE pc
  /\ UNCHANGED out_of_order
  /\ UNCHANGED offline
  /\ UNCHANGED << prompts, max_workers, firstPass, base_sprites,
                  costume_change_results, saved_costume_changes, cursor,
                  base_name, now, files >>

\* one iteration of `for sprite in base_sprites`: pick a costume and submit
Main_SubmitCostume ==
  /\ pc = "P2_SUBMIT"
  /\ LET k == Len(costume_futures) + 1
     IN  /\ \E costume_description \in CostumeChoices(base_sprites[k]) :
               costume_futures' = Append(costume_futures,
                  CostumeFuture(k, base_sprites[k], costume_description))
         /\ pc' = IF k = Len(base_sprites) THEN "P2_COLLECT" ELSE "P2_SUBMIT"
  /\ UNCHANGED out_of_order
  /\ UNCHANGED offline
  /\ UNCHANGED << prompts, max_workers, firstPass, base_sprites,
                  costume_change_results, saved_costume_changes, cursor,
                  base_name, now, files >>

\* the worker draws a background of its own whatever was passed in
Worker_StartCostume_Redraws(n) ==
  /\ CanTake(costume_futures, n, max_workers)
  /\ \E random \in BACKGROUND_COLORS :
        costume_futures' = [costume_futures EXCEPT
           ![n].state = "RUNNING",
           ![n].bg_color = random]
  /\ UNCHANGED out_of_order
  /\ UNCHANGED offline
  /\ UNCHANGED << prompts, pc, max_workers, firstPass, base_sprites,
                  costume_change_results, saved_costume_changes, cursor,
                  base_name, now, files >>

\* a worker thread enters generate_costume_change: the background is the one
\* passed in, or a random one when none was passed
Worker_StartCostume(n) ==
  /\ CanTake(costume_futures, n, max_workers)
  /\ \E random \in BACKGROUND_COLORS :
        costume_futures' = [costume_futures EXCEPT
           ![n].state = "RUNNING",
           ![n].bg_color = IF costume_futures[n].background_color # NONE
                           THEN costume_futures[n].background_color
                           ELSE random]
  /\ UNCHANGED out_of_order
  /\ UNCHANGED offline
  /\ UNCHANGED << prompts, pc, max_workers, firstPass, base_sprites,
                  costume_change_results, saved_costume_changes, cursor,
                  base_name, now, files >>

\* replicate.run returns an image reference
Worker_CostumeSucceeds(n) ==
  /\ n \in InState(costume_futures, "RUNNING")
  /\ costume_futures' = [costume_futures EXCEPT
        ![n].state = "FINISHED",
        ![n].result = CostumeSuccess(costume_futures[n].index,
                                     costume_futures[n].character_prompt,
                                     costume_futures[n].costume_description,
                                     costume_futures[n].bg_color)]
  /\ UNCHANGED out_of_order
  /\ UNCHANGED offline
  /\ UNCHANGED << prompts, pc, max_workers, firstPass, base_sprites,
                  costume_change_results, saved_costume_changes, cursor,
                  base_name, now, files >>

\* replicate.run raises, and the except clause returns the failure record
Worker_CostumeFails(n) ==
  /\ n \in InState(costume_futures, "RUNNING")
  /\ costume_futures' = [costume_futures EXCEPT
        ![n].state = "FINISHED",
        ![n].result = CostumeFailure(costume_futures[n].index,
                                     costume_futures[n].character_prompt,
                                     costume_futures[n].costume_description)]
  /\ UNCHANGED out_of_order
  /\ UNCHANGED offline
  /\ UNCHANGED << prompts, pc, max_workers, firstPass, base_sprites,
                  costume_change_results, saved_costume_changes, cursor,
                  base_name, now, files >>

\* the base filename is taken by the position of arrival of the result
BaseFilenameOf_ByArrival(future) ==
  base_sprites[Len(costume_change_results) + 1].base_filename

\* future_to_data[future]["sprite"]["base_filename"]
BaseFilenameOf(future) == base_sprites[future.sprite].base_filename

\* the loop also replaces the costume description the worker returned
Main_CollectCostume_Rewrites(n) ==
  /\ pc = "P2_COLLECT"
  /\ n \in InState(costume_futures, "FINISHED")
  /\ ~costume_futures[n].yielded
  /\ costume_futures' = [costume_futures EXCEPT ![n].yielded = TRUE]
  /\ costume_change_results' = Append(costume_change_results,
        [costume_futures[n].result EXCEPT
           !.base_filename = BaseFilenameOf(costume_futures[n]),
           !.costume_description = GENERIC_COSTUME])
  /\ out_of_order' = (out_of_order
                        \/ Inversion(costume_change_results, costume_futures[n]))
  /\ UNCHANGED offline
  /\ UNCHANGED << prompts, pc, max_workers, firstPass, base_sprites,
                  saved_costume_changes, cursor, base_name, now, files >>

\* one iteration of `for future in as_completed(future_to_data)`: the base
\* filename of the future's sprite is attached to the result
Main_CollectCostume(n) ==
  /\ pc = "P2_COLLECT"
  /\ n \in InState(costume_futures, "FINISHED")
  /\ ~costume_futures[n].yielded
  /\ costume_futures' = [costume_futures EXCEPT ![n].yielded = TRUE]
  /\ costume_change_results' = Append(costume_change_results,
        [costume_futures[n].result EXCEPT
           !.base_filename = BaseFilenameOf(costume_futures[n])])
  /\ out_of_order' = (out_of_order
                        \/ Inversion(costume_change_results, costume_futures[n]))
  /\ UNCHANGED offline
  /\ UNCHANGED << prompts, pc, max_workers, firstPass, base_sprites,
                  saved_costume_changes, cursor, base_name, now, files >>

\* as_completed is exhausted: the with block ends and the results are sorted
Main_SortCostume ==
  /\ pc = "P2_COLLECT"
  /\ \A n \in 1..Len(costume_futures) : costume_futures[n].yielded
  /\ costume_change_results' = SortByIndex(costume_change_results)
  /\ cursor' = 1
  /\ pc' = "P2_PERSIST"
  /\ UNCHANGED out_of_order
  /\ UNCHANGED offline
  /\ UNCHANGED << prompts, max_workers, firstPass, base_sprites,
                  costume_futures, saved_costume_changes, base_name, now,
                  files >>

\* the download loop meets a result whose generation failed
Main_SkipCostume ==
  /\ pc = "P2_PERSIST"
  /\ cursor <= Len(costume_change_results)
  /\ ~costume_change_results[cursor].success
  /\ cursor' = cursor + 1
  /\ UNCHANGED out_of_order
  /\ UNCHANGED offline
  /\ UNCHANGED << prompts, pc, max_workers, firstPass, base_sprites,
                  secondPass, saved_costume_changes, base_name, now, files >>

\* an artifact whose download failed is counted as saved
Main_DownloadCostume_CountsFailed ==
  /\ pc = "P2_PERSIST"
  /\ cursor <= Len(costume_change_results)
  /\ base_name = NONE
  /\ costume_change_results[cursor].success
  /\ \E outcome \in DownloadOutcomes :
        LET name == costume_change_results[cursor].base_filename
        IN  /\ output_dir' = AfterDownload(output_dir, name, outcome)
            /\ IF outcome = "ok"
               THEN /\ base_name' = name /\ cursor' = cursor
                    /\ saved_costume_changes' = saved_costume_changes
               ELSE /\ base_name' = NONE /\ cursor' = cursor + 1
                    /\ saved_costume_changes' = saved_costume_changes + 1
  /\ UNCHANGED out_of_order
  /\ UNCHANGED offline
  /\ UNCHANGED << prompts, pc, max_workers, firstPass, base_sprites,
                  secondPass, now, input_dir >>

\* the download loop downloads the image of a successful result under the
\* base filename of its sprite
Main_DownloadCostume ==
  /\ pc = "P2_PERSIST"
  /\ cursor <= Len(costume_change_results)
  /\ base_name = NONE
  /\ costume_change_results[cursor].success
  /\ \E outcome \in DownloadOutcomes :
        LET name == costume_change_results[cursor].base_filename
        IN  /\ output_dir' = AfterDownload(output_dir, name, outcome)
            /\ IF outcome = "ok"
               THEN base_name' = name /\ cursor' = cursor
               ELSE base_name' = NONE /\ cursor' = cursor + 1
  /\ UNCHANGED out_of_order
  /\ UNCHANGED offline
  /\ UNCHANGED << prompts, pc, max_workers, firstPass, base_sprites,
                  secondPass, saved_costume_changes, now, input_dir >>

\* text_filepath.write_text succeeds and the artifact is counted
Main_WriteCostumeText ==
  /\ pc = "P2_PERSIST"
  /\ base_name # NONE
  /\ output_dir' = output_dir \cup { << base_name, "txt" >> }
  /\ saved_costume_changes' = saved_costume_changes + 1
  /\ cursor' = cursor + 1
  /\ base_name' = NONE
  /\ UNCHANGED out_of_order
  /\ UNCHANGED offline
  /\ UNCHANGED << prompts, pc, max_workers, firstPass, base_sprites,
                  secondPass, now, input_dir >>

\* text_filepath.write_text raises: nothing in main catches it
Main_WriteCostumeTextRaises ==
  /\ pc = "P2_PERSIST"
  /\ base_name # NONE
  /\ \E created \in BOOLEAN :
        output_dir' = IF created THEN output_dir \cup { << base_name, "txt" >> }
                      ELSE output_dir
  /\ pc' = "OSError"
  /\ UNCHANGED out_of_order
  /\ UNCHANGED offline
  /\ UNCHANGED << prompts, max_workers, firstPass, base_sprites, secondPass,
                  saved_costume_changes, cursor, base_name, now, input_dir >>

\* the download loop of the second pass is over
Main_EndCostumeLoop ==
  /\ pc = "P2_PERSIST"
  /\ cursor > Len(costume_change_results)
  /\ pc' = "P2_PERSISTED"
  /\ UNCHANGED out_of_order
  /\ UNCHANGED offline
  /\ UNCHANGED << prompts, max_workers, firstPass, base_sprites, secondPass,
                  saved_costume_changes, cursor, base_name, now, files >>

\* the summary is printed and main returns
Main_Finish ==
  /\ pc = "P2_PERSISTED"
  /\ pc' = "DONE"
  /\ UNCHANGED out_of_order
  /\ UNCHANGED offline
  /\ UNCHANGED << prompts, max_workers, firstPass, base_sprites, secondPass,
                  saved_costume_changes, cursor, base_name, now, files >>

(***************************************************************************)
(* The run.                                                                *)
(***************************************************************************)
Next ==
  \/ Main_Start
  \/ Main_SubmitBase
  \/ \E n \in 1..Len(base_futures) : Worker_StartBase(n)
  \/ \E n \in 1..Len(base_futures) : Worker_BaseSucceeds(n)
  \/ \E n \in 1..Len(base_futures) : Worker_BaseFails(n)
  \/ \E n \in 1..Len(base_futures) : Main_CollectBase(n)
  \/ Main_SortBase
  \/ Main_SkipBase
  \/ Main_DownloadBase
  \/ Main_WriteBaseText
  \/ Main_WriteBaseTextRaises
  \/ Main_EndBaseLoop
  \/ Main_CheckBaseSprites
  \/ Main_SubmitCostume
  \/ \E n \in 1..Len(costume_futures) : Worker_StartCostume(n)
  \/ \E n \in 1..Len(costume_futures) : Worker_CostumeSucceeds(n)
  \/ \E n \in 1..Len(costume_futures) : Worker_CostumeFails(n)
  \/ \E n \in 1..Len(costume_futures) : Main_CollectCostume(n)
  \/ Main_SortCostume
  \/ Main_SkipCostume
  \/ Main_DownloadCostume
  \/ Main_WriteCostumeText
  \/ Main_WriteCostumeTextRaises
  \/ Main_EndCostumeLoop
  \/ Main_Finish

Spec == Init /\ [][Next]_vars

(***************************************************************************)
(* Properties of the two-pass run.                                         *)
(***************************************************************************)
\* the first batch has returned: base_results has been handed to the
\* download loop
FirstBatchReturned ==
  pc \in { "P1_PERSIST", "P1_PERSISTED", "P2_SUBMIT", "P2_COLLECT",
           "P2_PERSIST", "P2_PERSISTED", "DONE", "OSError" }

\* the second batch has returned
SecondBatchReturned ==
  /\ costume_futures # << >>
  /\ pc \in { "P2_PERSIST", "P2_PERSISTED", "DONE", "OSError" }

\* exactly one result for every index of a batch, and no other result
OneResultEach(results, indices) ==
  /\ Len(results) = Cardinality(indices)
  /\ \A i \in indices :
        Cardinality({ k \in 1..Len(results) : results[k]["index"] = i }) = 1

BaseIndices == 0..(Len(prompts) - 1)
SpriteIndices == { base_sprites[k]["index"] : k \in 1..Len(base_sprites) }

StrictlyAscending(results) ==
  \A k \in 1..(Len(results) - 1) : results[k]["index"] < results[k + 1]["index"]

Succeeded(result) ==
  result.success /\ result.url # NONE /\ result.error = NONE
Failed(result) ==
  ~result.success /\ result.error # NONE /\ result.url = NONE

\* C1: for a batch of any length, a batch of no tasks included, the
\* fan-out/fan-in step returns (it does not raise), and it returns exactly
\* one result per submitted task, every input index exactly once.
C1_OneResultPerTask ==
  /\ pc # "ValueError"
  /\ FirstBatchReturned => OneResultEach(base_results, BaseIndices)
  /\ SecondBatchReturned => OneResultEach(costume_change_results, SpriteIndices)

\* C2: whatever the order in which the workers finish, the results handed
\* to the download loop are in strictly ascending order of index, in both
\* passes.
C2_SortedAtPersistence ==
  /\ FirstBatchReturned => StrictlyAscending(base_results)
  /\ SecondBatchReturned => StrictlyAscending(costume_change_results)

\* the first batch has returned although its results arrived out of order
C2_Witness ==
  /\ pc = "P1_PERSIST"
  /\ out_of_order
  /\ Len(base_results) >= 2

\* C3: when a batch has returned, every task of it is terminal: its future
\* is finished, and its result is either a success carrying an image
\* reference or a failure carrying an error, never both and never neither.
C3_AllTerminalOnReturn ==
  /\ FirstBatchReturned =>
        /\ Len(base_futures) = Len(prompts)
        /\ \A n \in 1..Len(base_futures) :
              /\ base_futures[n].state = "FINISHED"
              /\ Succeeded(base_futures[n].result)
                    /= Failed(base_futures[n].result)
  /\ SecondBatchReturned =>
        /\ Len(costume_futures) = Len(base_sprites)
        /\ \A n \in 1..Len(costume_futures) :
              /\ costume_futures[n].state = "FINISHED"
              /\ Succeeded(costume_futures[n].result)
                    /= Failed(costume_futures[n].result)

\* a batch has returned with one task succeeded and another failed
C3_Witness ==
  /\ pc = "P1_PERSIST"
  /\ \E n \in 1..Len(base_futures) : Succeeded(base_futures[n].result)
  /\ \E n \in 1..Len(base_futures) : Failed(base_futures[n].result)

\* future n of a batch goes from running to finished with a failure
FailsIn(before, after, n) ==
  /\ n \in 1..Len(before)
  /\ before[n].state = "RUNNING"
  /\ Len(after) = Len(before)
  /\ after[n].state = "FINISHED"
  /\ ~after[n].result.success

\* the effect of a failure is confined to its own task
Confined(before, after, n) ==
  /\ Failed(after[n].result)
  /\ after[n].result["index"] = before[n]["index"]
  /\ \A m \in 1..Len(before) : m # n => after[m] = before[m]
  /\ pc' = pc
  /\ base_results' = base_results
  /\ costume_change_results' = costume_change_results

\* a sibling that is running can still finish either way
SiblingsCanFinish ==
  /\ \A n \in InState(base_futures, "RUNNING") :
        ENABLED Worker_BaseSucceeds(n) /\ ENABLED Worker_BaseFails(n)
  /\ \A n \in InState(costume_futures, "RUNNING") :
        ENABLED Worker_CostumeSucceeds(n) /\ ENABLED Worker_CostumeFails(n)

\* the download loop is at a result whose generation failed
AtFailedResult ==
  \/ /\ pc = "P1_PERSIST"
     /\ cursor <= Len(base_results)
     /\ ~base_results[cursor].success
  \/ /\ pc = "P2_PERSIST"
     /\ cursor <= Len(costume_change_results)
     /\ ~costume_change_results[cursor].success

\* C4: a failed generation call becomes a failure result with its error for
\* that task only: the step leaves every sibling's future, the collected
\* results and the coordinator as they were; running siblings can still
\* finish, with either outcome; and the download loop passes over the failed
\* result without leaving main.
C4_FailureIsContained ==
  /\ [][ /\ \A n \in 1..Len(base_futures) :
              FailsIn(base_futures, base_futures', n)
                 => Confined(base_futures, base_futures', n)
         /\ \A n \in 1..Len(costume_futures) :
              FailsIn(costume_futures, costume_futures', n)
                 => Confined(costume_futures, costume_futures', n)
         /\ AtFailedResult => pc' = pc /\ cursor' = cursor + 1 ]_vars
  /\ [](SiblingsCanFinish)

\* the run is done with one first-pass task failed and its sibling's
\* artifact saved in both directories
C4_Witness ==
  /\ pc = "DONE"
  /\ \E n \in 1..Len(base_futures) : Failed(base_futures[n].result)
  /\ \E name \in { f[1] : f \in output_dir } :
        << name, "txt" >> \in input_dir /\ << name, "txt" >> \in output_dir

\* nothing of the first pass changes in a step
FirstPassFrozen ==
  /\ base_futures' = base_futures
  /\ base_results' = base_results
  /\ base_sprites' = base_sprites
  /\ input_dir' = input_dir

\* C5: a second-pass task exists only when every first-pass task is terminal
\* and collected and the first download loop is over; from then on nothing
\* of the first pass changes, so the two passes never overlap.
C5_PhasesDoNotOverlap ==
  /\ [](costume_futures # << >> =>
          /\ pc \in { "P2_SUBMIT", "P2_COLLECT", "P2_PERSIST", "P2_PERSISTED",
                      "DONE", "OSError" }
          /\ Len(base_futures) = Len(prompts)
          /\ \A m \in 1..Len(base_futures) :
                base_futures[m].state = "FINISHED" /\ base_futures[m].yielded
          /\ \A n \in 1..Len(costume_futures) :
                \E m \in 1..Len(base_futures) :
                   /\ base_futures[m]["index"] = costume_futures[n]["index"]
                   /\ base_futures[m].state = "FINISHED")
  /\ [][costume_futures' # << >> => FirstPassFrozen]_vars

\* a second-pass task is running in a run of two first-pass tasks
C5_Witness ==
  /\ Len(base_futures) >= 2
  /\ InState(costume_futures, "RUNNING") # {}

\* C6: the reference image of every second-pass task is the image reference
\* returned by the first-pass task of the same index, and that task
\* succeeded; no second-pass task has the index of a failed first-pass task.
C6_ReferenceIsSiblingOutput ==
  \A n \in 1..Len(costume_futures) :
     \E m \in 1..Len(base_futures) :
        /\ base_futures[m]["index"] = costume_futures[n]["index"]
        /\ base_futures[m].state = "FINISHED"
        /\ Succeeded(base_futures[m].result)
        /\ costume_futures[n].base_image_url = base_futures[m].result.url

\* a second-pass task has finished for index 1 or more while the first-pass
\* task of index 0 failed
C6_Witness ==
  /\ \E m \in 1..Len(base_futures) :
        base_futures[m]["index"] = 0 /\ Failed(base_futures[m].result)
  /\ \E n \in InState(costume_futures, "FINISHED") :
        costume_futures[n]["index"] >= 1

\* the base names of the first-pass artifacts that are complete on disk
PersistedBase ==
  { name \in { f[1] : f \in input_dir } :
       << name, "png" >> \in input_dir /\ << name, "txt" >> \in input_dir }

\* the first-pass tasks whose generation succeeded
SucceededBase ==
  { m \in 1..Len(base_futures) :
       base_futures[m].state = "FINISHED" /\ Succeeded(base_futures[m].result) }

\* the second batch has been submitted in full
SecondBatchBuilt ==
  \/ pc \in { "P2_COLLECT", "P2_PERSIST", "P2_PERSISTED" }
  \/ pc \in { "DONE", "OSError" } /\ costume_futures # << >>

\* C7: the second batch has exactly one task for every first-pass artifact
\* that was saved, with that artifact's index, and no other task; so it has
\* at most as many tasks as first-pass tasks succeeded.
C7_OneTaskPerSavedArtifact ==
  SecondBatchBuilt =>
     LET persisted == PersistedBase
     IN  /\ \A name \in persisted :
               Cardinality({ n \in 1..Len(costume_futures) :
                                /\ BaseFilenameOf(costume_futures[n]) = name
                                /\ costume_futures[n]["index"] = name[2] }) = 1
         /\ \A n \in 1..Len(costume_futures) :
               BaseFilenameOf(costume_futures[n]) \in persisted
         /\ Len(costume_futures) = Cardinality(persisted)
         /\ Len(costume_futures) <= Cardinality(SucceededBase)

\* the second batch is smaller than the number of first-pass successes,
\* because a download failed
C7_Witness ==
  /\ SecondBatchBuilt
  /\ Len(costume_futures) >= 1
  /\ Len(costume_futures) < Cardinality(SucceededBase)

\* the sprites saved under a base name
SpritesNamed(name) ==
  { k \in 1..Len(base_sprites) : base_sprites[k].base_filename = name }

\* C8: every file of the output directory carries the base name of exactly
\* one saved first-pass artifact, and it was written from the second-pass
\* result whose index is that artifact's index, whatever the order in which
\* the second-pass workers finished.
C8_OutputNameMatchesSibling ==
  \A name \in { f[1] : f \in output_dir } :
     /\ \E j \in 1..Len(base_sprites) : SpritesNamed(name) = { j }
     /\ << name, "png" >> \in input_dir
     /\ << name, "txt" >> \in input_dir
     /\ \E k \in 1..Len(costume_change_results) :
           /\ costume_change_results[k].success
           /\ costume_change_results[k].base_filename = name
     /\ \A k \in 1..Len(costume_change_results) :
           costume_change_results[k].base_filename = name =>
              \A j \in SpritesNamed(name) :
                 base_sprites[j]["index"] = costume_change_results[k]["index"]

\* two second-pass artifacts are saved although their workers finished out
\* of order
C8_Witness ==
  /\ pc = "DONE"
  /\ out_of_order
  /\ Cardinality({ name \in { f[1] : f \in output_dir } :
                     /\ << name, "png" >> \in output_dir
                     /\ << name, "txt" >> \in output_dir }) >= 2

\* the first batch had tasks, has returned, and every generation call failed
AllBaseFailed ==
  /\ FirstBatchReturned
  /\ Len(base_results) >= 1
  /\ \A k \in 1..Len(base_results) : Failed(base_results[k])

\* C9: when the generation call has failed for every first-pass task, no
\* second-pass task is ever submitted (so no call is made with a reference
\* image), no exception leaves main, and the run can stop nowhere but in
\* DONE.
C9_AllFailedEndsDone ==
  AllBaseFailed =>
     /\ costume_futures = << >>
     /\ pc \notin Raised
     /\ ~(ENABLED Next) => pc = "DONE"

\* a run of two tasks, both failed, is done
C9_Witness ==
  /\ AllBaseFailed
  /\ Len(base_results) >= 2
  /\ pc = "DONE"

\* the second pool exists and work is being submitted or collected
Phase2Running == pc \in { "P2_SUBMIT", "P2_COLLECT" }

\* C10: the second pass runs only against a non-empty list of saved sprites:
\* from PHASE1_PERSISTED the run goes to the second pass when a sprite was
\* saved and straight to DONE when none was, and there is no other way into
\* the second pass.
C10_NoEmptySecondPass ==
  /\ []((Phase2Running \/ costume_futures # << >>) => base_sprites # << >>)
  /\ [][ /\ pc = "P1_PERSISTED" =>
              pc' = IF base_sprites = << >> THEN "DONE" ELSE "P2_SUBMIT"
         /\ (Phase2Running' /\ ~Phase2Running) => pc = "P1_PERSISTED" ]_vars

\* the run ended early: a generation succeeded, but no sprite was saved
C10_Witness ==
  /\ pc = "DONE"
  /\ base_sprites = << >>
  /\ SucceededBase # {}
  /\ costume_futures = << >>


\* the second-pass futures whose worker has built its request
Requested == InState(costume_futures, "RUNNING")
                \cup InState(costume_futures, "FINISHED")

\* C11: the background a second-pass worker puts in its request is the one
\* its first-pass sibling (same index) drew and put in its own request and
\* result; a successful second-pass result carries it too.
C11_BackgroundContinuity ==
  \A n \in Requested :
     /\ costume_futures[n].bg_color # NONE
     /\ \E m \in 1..Len(base_futures) :
           /\ base_futures[m]["index"] = costume_futures[n]["index"]
           /\ base_futures[m].bg_color = costume_futures[n].bg_color
           /\ base_futures[m].result.background_color
                 = costume_futures[n].bg_color
     /\ costume_futures[n].result.success =>
           costume_futures[n].result.background_color
              = costume_futures[n].bg_color

\* two second-pass requests have been built with two different backgrounds
C11_Witness ==
  \E n \in Requested, k \in Requested :
     costume_futures[n].bg_color # costume_futures[k].bg_color


(***************************************************************************)
(* get_character_type called alone, on built-in and made-up subject texts.  *)
(***************************************************************************)
\* the two-pass run has not been started
RunNotStarted ==
  /\ prompts = << >>
  /\ pc = "INIT"
  /\ max_workers = 0
  /\ base_futures = << >>
  /\ base_results = << >>
  /\ base_sprites = << >>
  /\ costume_futures = << >>
  /\ costume_change_results = << >>
  /\ saved_costume_changes = 0
  /\ cursor = 0
  /\ base_name = NONE
  /\ now = 0
  /\ input_dir = {}
  /\ out_of_order = FALSE

\* the two-pass run is not running and has left no sprite sheet
PipelineIdle == RunNotStarted /\ output_dir = {}

\* "Knight in silver armor"
KNIGHT_IN_SILVER_ARMOR == SubSeq(CHARACTER_PROMPTS[1], 1, 22)

\* words of made-up subject texts: keys in other letter cases, a key inside
\* a longer word, and words that hold no key
MatcherWords ==
  { <<"R","O","B","O","T">>, <<"m","e","c","h">>,
    <<"m","e","c","h","a","n","i","c","a","l">>,
    <<"E","l","e","m","e","n","t","a","l">>, <<"m","a","g","e">>,
    <<"i","m","a","g","e","s">>, <<"d","o","g">> }

\* the texts of 1 to n words, separated by spaces
RECURSIVE WordTexts(_)
WordTexts(n) ==
  IF n <= 0 THEN {}
  ELSE IF n = 1 THEN MatcherWords
  ELSE WordTexts(n - 1)
          \cup { t \o << " " >> \o w : t \in WordTexts(n - 1), w \in MatcherWords }

\* the subject texts the matcher is called on
MatcherInputs ==
  { SUBJECTS[s] : s \in 1..Len(SUBJECTS) }
     \cup { KNIGHT_IN_SILVER_ARMOR } \cup WordTexts(MaxWords)

MatcherInit ==
  /\ PipelineIdle
  /\ DecoderIdle
  /\ PoolIdle
  /\ SingleIdle
  /\ m_prompt \in MatcherInputs
  /\ m_type = PENDING

\* get_character_type(m_prompt) returns
Matcher_Call ==
  /\ m_type = PENDING
  /\ m_prompt # << >>
  /\ m_type' = get_character_type(m_prompt)
  /\ UNCHANGED << m_prompt, pipeline, decoder, pool, single >>

MatcherNext == Matcher_Call

MatcherSpec == MatcherInit /\ [][MatcherNext]_vars

\* needle occurs in haystack as a run of consecutive characters
IsSubstring(needle, haystack) ==
  \E first \in 1..(Len(haystack) + 1) :
     /\ first + Len(needle) - 1 <= Len(haystack)
     /\ SubSeq(haystack, first, first + Len(needle) - 1) = needle

\* the keys whose lower-cased form occurs in the lower-cased text
KeysIn(text) ==
  { n \in 1..Len(COSTUME_KEYS) :
       IsSubstring(Lower(COSTUME_KEYS[n]), Lower(text)) }

\* C12: for any subject text in which some key occurs (letter case ignored),
\* the matcher returns the earliest-declared of the keys that occur, also
\* when a later key that occurs is longer; "Knight in silver armor" gives
\* "Knight".
C12_FirstMatchInTableOrder ==
  (m_type # PENDING /\ KeysIn(m_prompt) # {}) =>
     /\ m_type \in KeysIn(m_prompt)
     /\ \A n \in KeysIn(m_prompt) : m_type <= n
     /\ m_prompt = KNIGHT_IN_SILVER_ARMOR =>
           COSTUME_KEYS[m_type] = <<"K","n","i","g","h","t">>

\* the matcher has returned a key although a longer key, declared later,
\* occurs in the text too
C12_Witness ==
  /\ m_type \notin { PENDING, 0 }
  /\ \E n \in KeysIn(m_prompt) :
        n > m_type /\ Len(COSTUME_KEYS[n]) > Len(COSTUME_KEYS[m_type])


\* for each subject, whether no key occurs in its text
HoldsNoKey == [s \in 1..Len(SUBJECTS) |-> KeysIn(SUBJECTS[s]) = {}]

\* the subjects in whose text no key occurs
NoKeySubjects == { s \in 1..Len(SUBJECTS) : HoldsNoKey[s] }

\* what the matcher returns for "a friendly dog"
FriendlyDogType == get_character_type(FRIENDLY_DOG)

\* the matcher returns None for every subject in whose text no key occurs
NoKeyGivesNone == \A s \in NoKeySubjects : CharacterType[s] = 0

\* the second-pass futures of subjects in whose text no key occurs
NoKeyFutures ==
  { n \in 1..Len(costume_futures) :
       HoldsNoKey[costume_futures[n].character_prompt] }

GIF_DURATION == 200
GIF_LOOP == 0

\* side lengths of the sheets: small ones, and the 256 and 257 pixel sides
Sides == (1..MaxSide) \cup { 256, 257 }

\* the files a run of the generator can have left in OUTPUT_SPRITES_DIR
SheetFiles ==
  { << BaseName(0, i), ext >> : i \in 0..(MaxSheets - 1),
                                ext \in { "png", "txt" } }

\* Path.stem
Stem(path) == path[1]

\* OUTPUT_SPRITES_DIR.glob("*.png")
GlobPng(dir) == { path \in dir : path[2] = "png" }

\* the orders in which a glob may list a set of paths
Orders(paths) ==
  { s \in [1..Cardinality(paths) -> paths] :
       \A i, j \in 1..Cardinality(paths) : i # j => s[i] # s[j] }

\* img.crop(box): the region and the size of the image it returns
crop(box) ==
  [ box |-> box, size |-> << box[3] - box[1], box[4] - box[2] >> ]

\* the right column and the bottom row are cut to the size of the first frame
split_sprite_sheet_Truncating(size) ==
  LET width == size[1]
      height == size[2]
      frame_width == width \div 2
      frame_height == height \div 2
  IN  << crop(<< 0, 0, frame_width, frame_height >>),
         crop(<< frame_width, 0, 2 * frame_width, frame_height >>),
         crop(<< 0, frame_height, frame_width, 2 * frame_height >>),
         crop(<< frame_width, frame_height,
                 2 * frame_width, 2 * frame_height >>) >>

\* frames are appended top-left, bottom-left, top-right, bottom-right
split_sprite_sheet_ColumnMajor(size) ==
  LET width == size[1]
      height == size[2]
      frame_width == width \div 2
      frame_height == height \div 2
  IN  << crop(<< 0, 0, frame_width, frame_height >>),
         crop(<< 0, frame_height, frame_width, height >>),
         crop(<< frame_width, 0, width, frame_height >>),
         crop(<< frame_width, frame_height, width, height >>) >>

\* split_sprite_sheet for an image of the given size
split_sprite_sheet(size) ==
  LET width == size[1]
      height == size[2]
      frame_width == width \div 2
      frame_height == height \div 2
  IN  << crop(<< 0, 0, frame_width, frame_height >>),
         crop(<< frame_width, 0, width, frame_height >>),
         crop(<< 0, frame_height, frame_width, height >>),
         crop(<< frame_width, frame_height, width, height >>) >>

\* the last frame is the base image and the others follow in reverse
Animation_Reversed(frame_list) ==
  [ first |-> frame_list[Len(frame_list)],
    append_images |-> [ k \in 1..(Len(frame_list) - 1) |->
                           frame_list[Len(frame_list) - k] ],
    duration |-> GIF_DURATION, loop |-> GIF_LOOP, format |-> "GIF" ]

\* frames[0].save(..., save_all=True, append_images=frames[1:], ...)
Animation(frame_list) ==
  [ first |-> Head(frame_list), append_images |-> Tail(frame_list),
    duration |-> GIF_DURATION, loop |-> GIF_LOOP, format |-> "GIF" ]

DecoderInit ==
  /\ RunNotStarted
  /\ output_dir \in SUBSET SheetFiles
  /\ MatcherIdle
  /\ DecoderIdle
  /\ PoolIdle
  /\ SingleIdle

\* main: the glob finds sprite sheets and the loop is entered
Decoder_Start ==
  /\ gif_pc = "INIT"
  /\ sprite_sheets' \in Orders(GlobPng(output_dir))
  /\ sprite_sheets' # << >>
  /\ gif_pc' = "LOOP"
  /\ sheet' = 1
  /\ converted_count' = 0
  /\ skipped_count' = 0
  /\ UNCHANGED << gif_images, img_size, frames, gif >>
  /\ UNCHANGED << pipeline, matcher, pool, single >>

\* main: the glob finds nothing and main returns
Decoder_NoSheets ==
  /\ gif_pc = "INIT"
  /\ GlobPng(output_dir) = {}
  /\ sprite_sheets' = << >>
  /\ gif_pc' = "NO_SHEETS"
  /\ UNCHANGED << sheet, converted_count, skipped_count, gif_images,
                  img_size, frames, gif >>
  /\ UNCHANGED << pipeline, matcher, pool, single >>

\* the skipped sheet is counted as converted
Decoder_OpenRaises_CountsConverted ==
  /\ gif_pc = "LOOP"
  /\ sheet <= Len(sprite_sheets)
  /\ img_size' = NONE
  /\ frames' = << >>
  /\ gif' = NONE
  /\ converted_count' = converted_count + 1
  /\ sheet' = sheet + 1
  /\ UNCHANGED << sprite_sheets, gif_pc, skipped_count, gif_images >>
  /\ UNCHANGED << pipeline, matcher, pool, single >>

\* one iteration: Image.open raises, create_gif_from_sprite_sheet returns
\* False and the sheet is counted as skipped
Decoder_OpenRaises ==
  /\ gif_pc = "LOOP"
  /\ sheet <= Len(sprite_sheets)
  /\ img_size' = NONE
  /\ frames' = << >>
  /\ gif' = NONE
  /\ skipped_count' = skipped_count + 1
  /\ sheet' = sheet + 1
  /\ UNCHANGED << sprite_sheets, gif_pc, converted_count, gif_images >>
  /\ UNCHANGED << pipeline, matcher, pool, single >>

\* one iteration: the sheet is split, save raises (an incomplete file may
\* be left under the GIF's name), create_gif_from_sprite_sheet returns False
Decoder_SaveRaises ==
  /\ gif_pc = "LOOP"
  /\ sheet <= Len(sprite_sheets)
  /\ \E size \in Sides \X Sides :
        /\ img_size' = size
        /\ frames' = split_sprite_sheet(size)
  /\ gif' = NONE
  /\ \E left \in BOOLEAN :
        gif_images' =
           IF left
           THEN gif_images \cup { << Stem(sprite_sheets[sheet]), "gif" >> }
           ELSE gif_images
  /\ skipped_count' = skipped_count + 1
  /\ sheet' = sheet + 1
  /\ UNCHANGED << sprite_sheets, gif_pc, converted_count >>
  /\ UNCHANGED << pipeline, matcher, pool, single >>

\* one iteration: the sheet is split and saved as stem + ".gif"
Decoder_Converted ==
  /\ gif_pc = "LOOP"
  /\ sheet <= Len(sprite_sheets)
  /\ \E size \in Sides \X Sides :
        /\ img_size' = size
        /\ frames' = split_sprite_sheet(size)
        /\ gif' = Animation(split_sprite_sheet(size))
  /\ gif_images' = gif_images \cup { << Stem(sprite_sheets[sheet]), "gif" >> }
  /\ converted_count' = converted_count + 1
  /\ sheet' = sheet + 1
  /\ UNCHANGED << sprite_sheets, gif_pc, skipped_count >>
  /\ UNCHANGED << pipeline, matcher, pool, single >>

\* the loop is over and the totals are printed
Decoder_Finish ==
  /\ gif_pc = "LOOP"
  /\ sheet > Len(sprite_sheets)
  /\ gif_pc' = "DONE"
  /\ UNCHANGED << sprite_sheets, sheet, converted_count, skipped_count,
                  gif_images, img_size, frames, gif >>
  /\ UNCHANGED << pipeline, matcher, pool, single >>

DecoderNext ==
  \/ Decoder_Start
  \/ Decoder_NoSheets
  \/ Decoder_OpenRaises
  \/ Decoder_SaveRaises
  \/ Decoder_Converted
  \/ Decoder_Finish

DecoderSpec == DecoderInit /\ [][DecoderNext]_vars

\* the width and the height of a frame
FrameWidth(frame) == frame.size[1]
FrameHeight(frame) == frame.size[2]

\* the last call has split an image
HasSplit == img_size # NONE /\ frames # << >>

\* the corner of the sheet at which a frame starts
Origin(frame) == << frame.box[1], frame.box[2] >>

\* C14: a sheet whose width W and height H are both even is split into
\* exactly 4 frames of W/2 by H/2 pixels, in row-major order: top-left,
\* top-right, bottom-left, bottom-right; 256 by 256 gives four 128 by 128.
C14_EvenSheetFourEqualFrames ==
  (HasSplit /\ img_size[1] % 2 = 0 /\ img_size[2] % 2 = 0) =>
     LET W == img_size[1]
         H == img_size[2]
     IN  /\ Len(frames) = 4
         /\ \A f \in 1..4 :
               /\ 2 * FrameWidth(frames[f]) = W
               /\ 2 * FrameHeight(frames[f]) = H
         /\ Origin(frames[1]) = << 0, 0 >>
         /\ 2 * Origin(frames[2])[1] = W /\ Origin(frames[2])[2] = 0
         /\ Origin(frames[3])[1] = 0 /\ 2 * Origin(frames[3])[2] = H
         /\ 2 * Origin(frames[4])[1] = W /\ 2 * Origin(frames[4])[2] = H
         /\ img_size = << 256, 256 >> =>
               \A f \in 1..4 : frames[f].size = << 128, 128 >>

\* a 256 by 256 sheet has been split
C14_Witness ==
  /\ HasSplit
  /\ img_size = << 256, 256 >>
  /\ gif # NONE

\* C15: whatever the width W and the height H of the sheet, every frame is
\* W div 2 wide and H div 2 high, so that the remainder pixel of an odd side
\* is dropped; a 257 by 256 sheet gives frames 128 wide.
C15_OddSheetTruncated ==
  HasSplit =>
     /\ \A f \in 1..Len(frames) :
           /\ FrameWidth(frames[f]) = img_size[1] \div 2
           /\ FrameHeight(frames[f]) = img_size[2] \div 2
     /\ img_size = << 257, 256 >> =>
           \A f \in 1..Len(frames) : FrameWidth(frames[f]) = 128


\* the sprite sheets the converter has found
Found == GlobPng(output_dir)

\* the number of sheets the loop has dealt with
Handled ==
  IF gif_pc = "LOOP" THEN sheet - 1
  ELSE IF gif_pc = "DONE" THEN Len(sprite_sheets)
  ELSE 0

\* C18: every GIF the converter writes is named stem + ".gif" after one of
\* the PNG files found, one GIF at most per PNG; a sheet whose conversion
\* raises is counted as skipped and the loop goes on with the next sheet;
\* converted plus skipped is the number of sheets dealt with, and the
\* number of sheets found once the converter is done.
C18_OneGifPerSheet ==
  /\ gif_images \subseteq { << Stem(path), "gif" >> : path \in Found }
  /\ Cardinality(gif_images) <= Handled
  /\ converted_count <= Cardinality(gif_images)
  /\ gif_pc \in { "LOOP", "DONE" } =>
        /\ Len(sprite_sheets) = Cardinality(Found)
        /\ \A i, j \in 1..Len(sprite_sheets) :
              i # j => Stem(sprite_sheets[i]) # Stem(sprite_sheets[j])
  /\ converted_count + skipped_count = Handled
  /\ gif_pc \in { "DONE", "NO_SHEETS" } =>
        converted_count + skipped_count = Cardinality(Found)
  /\ (gif_pc = "LOOP" /\ sheet <= Len(sprite_sheets)) =>
        ENABLED Decoder_Converted
  /\ (gif_pc = "LOOP" /\ sheet > Len(sprite_sheets)) =>
        ENABLED Decoder_Finish

\* the converter is done: a sheet was skipped and a later one was converted
C18_Witness ==
  /\ gif_pc = "DONE"
  /\ skipped_count >= 1
  /\ converted_count >= 1
  /\ gif # NONE


(***************************************************************************)
(* Persistence of the artifacts of the two-pass run.                       *)
(***************************************************************************)
\* every text file of the directory has its image next to it
TextHasImage(dir) ==
  \A file \in dir : file[2] = "txt" => << file[1], "png" >> \in dir

\* main is in one of its two download loops, at a result to be downloaded
AtDownload ==
  /\ base_name = NONE
  /\ \/ /\ pc = "P1_PERSIST"
        /\ cursor <= Len(base_results)
        /\ base_results[cursor].success
     \/ /\ pc = "P2_PERSIST"
        /\ cursor <= Len(costume_change_results)
        /\ costume_change_results[cursor].success

\* the step is a download that failed: the loop goes on to the next result
\* without a text file to write
DownloadFailed == AtDownload /\ cursor' = cursor + 1 /\ base_name' = NONE

\* in both directories every text file has its image next to it
TextOnlyAfterImage == TextHasImage(input_dir) /\ TextHasImage(output_dir)

\* C16: at every step of a run a text file is in a directory only if the
\* image of the same base name is there already, and a download that fails
\* leaves no file at all: both directories are as they were.
C16_ImageBeforeText ==
  [][ (TextHasImage(input_dir') /\ TextHasImage(output_dir'))
         /\ (DownloadFailed => files' = files) ]_vars

\* main is writing the text file of an artifact whose image is on disk
WritingText == pc \in { "P1_PERSIST", "P2_PERSIST" } /\ base_name # NONE

\* the step is a text file that was not written: no artifact is counted
TextNotWritten ==
  /\ WritingText
  /\ saved_costume_changes' = saved_costume_changes
  /\ Len(base_sprites') = Len(base_sprites)

\* C17: an error while one artifact is persisted, in the download or in the
\* writing of the text file, does not end the run: main stays in its loop
\* and goes on to the next result.
C17_PersistErrorNotFatal ==
  [][ (pc \in { "P1_PERSIST", "P2_PERSIST" }) =>
         (pc' \notin Raised /\ (TextNotWritten => cursor' = cursor + 1)) ]_vars


(***************************************************************************)
(* The executor of a batch, with its tasks counted instead of listed: a     *)
(* first batch of up to MaxBatch tasks, then a second batch of one task per *)
(* saved result of the first, run with the same max_workers.                *)
(***************************************************************************)
PoolInit ==
  /\ PipelineIdle
  /\ MatcherIdle
  /\ DecoderIdle
  /\ SingleIdle
  /\ pool_pc = "INIT"
  /\ pool_pass = 1
  /\ pool_tasks \in 0..MaxBatch
  /\ pool_max_workers = 0
  /\ pool_submitted = 0
  /\ pool_running = 0
  /\ pool_finished = 0

\* max_workers = min(len(CHARACTER_PROMPTS), 10) and the first executor
Pool_Start ==
  /\ pool_pc = "INIT"
  /\ pool_max_workers' = Min(pool_tasks, MAX_CONCURRENCY)
  /\ pool_pc' = IF ThreadPoolExecutor(pool_max_workers') THEN "SUBMIT"
                ELSE "ValueError"
  /\ UNCHANGED << pool_pass, pool_tasks, pool_submitted, pool_running,
                  pool_finished >>
  /\ UNCHANGED << pipeline, matcher, decoder, single >>

\* executor.submit for the next task of the batch
Pool_Submit ==
  /\ pool_pc = "SUBMIT"
  /\ pool_submitted < pool_tasks
  /\ pool_submitted' = pool_submitted + 1
  /\ UNCHANGED << pool_pc, pool_pass, pool_tasks, pool_max_workers,
                  pool_running, pool_finished >>
  /\ UNCHANGED << pipeline, matcher, decoder, single >>

\* a worker thread takes a submitted task and calls the worker function
Pool_Take ==
  /\ pool_pc = "SUBMIT"
  /\ pool_submitted - pool_running - pool_finished > 0
  /\ IdleWorker(pool_running, pool_max_workers)
  /\ pool_running' = pool_running + 1
  /\ UNCHANGED << pool_pc, pool_pass, pool_tasks, pool_max_workers,
                  pool_submitted, pool_finished >>
  /\ UNCHANGED << pipeline, matcher, decoder, single >>

\* a worker call returns its result record
Pool_Return ==
  /\ pool_pc = "SUBMIT"
  /\ pool_running > 0
  /\ pool_running' = pool_running - 1
  /\ pool_finished' = pool_finished + 1
  /\ UNCHANGED << pool_pc, pool_pass, pool_tasks, pool_max_workers,
                  pool_submitted >>
  /\ UNCHANGED << pipeline, matcher, decoder, single >>

\* as_completed has yielded every future and the with block is left
Pool_Collected ==
  /\ pool_pc = "SUBMIT"
  /\ pool_finished = pool_tasks
  /\ pool_pc' = IF pool_pass = 1 THEN "SAVE" ELSE "DONE"
  /\ UNCHANGED << pool_pass, pool_tasks, pool_max_workers, pool_submitted,
                  pool_running, pool_finished >>
  /\ UNCHANGED << pipeline, matcher, decoder, single >>

\* the first pass has saved some of its results and the second executor is
\* made for them, with the max_workers of the first
Pool_SecondBatch ==
  /\ pool_pc = "SAVE"
  /\ \E saved \in 1..pool_tasks : pool_tasks' = saved
  /\ pool_pass' = 2
  /\ pool_submitted' = 0
  /\ pool_running' = 0
  /\ pool_finished' = 0
  /\ pool_pc' = "SUBMIT"
  /\ UNCHANGED pool_max_workers
  /\ UNCHANGED << pipeline, matcher, decoder, single >>

\* the first pass has saved nothing and main returns
Pool_NoSecondBatch ==
  /\ pool_pc = "SAVE"
  /\ pool_pc' = "DONE"
  /\ UNCHANGED << pool_pass, pool_tasks, pool_max_workers, pool_submitted,
                  pool_running, pool_finished >>
  /\ UNCHANGED << pipeline, matcher, decoder, single >>

PoolNext ==
  \/ Pool_Start
  \/ Pool_Submit
  \/ Pool_Take
  \/ Pool_Return
  \/ Pool_Collected
  \/ Pool_SecondBatch
  \/ Pool_NoSecondBatch

PoolSpec == PoolInit /\ [][PoolNext]_vars

\* C19: while a batch is run, the number of worker calls in flight is at
\* most the smaller of the number of tasks of that batch and 10, in the
\* first batch and in the second, which may be smaller than the first.
C19_InFlightBounded ==
  /\ pool_running <= Min(pool_tasks, 10)
  /\ pool_running <= pool_submitted - pool_finished

\* the second batch is smaller than max_workers and all of it is in flight
C19_Witness ==
  /\ pool_pass = 2
  /\ pool_tasks >= 2
  /\ pool_tasks < pool_max_workers
  /\ pool_running = pool_tasks


(***************************************************************************)
(* No task is run twice.                                                   *)
(***************************************************************************)
\* how far a future has got
Rank(state) ==
  CASE state = "PENDING" -> 0
    [] state = "RUNNING" -> 1
    [] state = "FINISHED" -> 2

\* from one list of futures to the next no future is dropped or replaced,
\* none goes back to an earlier state, and a result once returned stays
NoStepBack(old, new) ==
  /\ Len(old) <= Len(new)
  /\ \A n \in 1..Len(old) :
        /\ new[n]["index"] = old[n]["index"]
        /\ new[n].character_prompt = old[n].character_prompt
        /\ Rank(new[n].state) >= Rank(old[n].state)
        /\ old[n].state = "FINISHED" => new[n].result = old[n].result

\* no two futures of the list are for the same index
OneFuturePerIndex(futures) ==
  \A n, k \in 1..Len(futures) :
     n # k => futures[n]["index"] # futures[k]["index"]

\* the step leaves every task with at most one call of its worker
OneCallPerTask ==
  /\ NoStepBack(base_futures, base_futures')
  /\ NoStepBack(costume_futures, costume_futures')
  /\ OneFuturePerIndex(base_futures')
  /\ OneFuturePerIndex(costume_futures')
  /\ Len(base_futures') <= Len(prompts')
  /\ \A n \in 1..Len(costume_futures') :
        \E k \in 1..Len(base_futures') :
           /\ base_futures'[k]["index"] = costume_futures'[n]["index"]
           /\ Succeeded(base_futures'[k].result)

\* C20: in a run every task has one future per pass, whose worker is called
\* once: a future goes from pending to running to finished and never back,
\* a failed result stays as it is, no task is submitted a second time, and
\* a subject whose first-pass task failed gets no second-pass task.
C20_NoRetry == [][OneCallPerTask]_vars

\* the run is over with a failed task in each pass
C20_Witness ==
  /\ pc = "DONE"
  /\ \E n \in InState(base_futures, "FINISHED") :
        Failed(base_futures[n].result)
  /\ \E n \in InState(costume_futures, "FINISHED") :
        Failed(costume_futures[n].result)


(***************************************************************************)
(* The states a run goes through.                                          *)
(***************************************************************************)
\* the state of the run: 0 INIT, 1 PHASE1_RUNNING, 2 PHASE1_PERSISTED,
\* 3 PHASE2_RUNNING, 4 PHASE2_PERSISTED, 5 DONE; 6 when an exception has
\* left main
RunState(at) ==
  CASE at = "INIT" -> 0
    [] at \in { "P1_SUBMIT", "P1_COLLECT" } -> 1
    [] at \in { "P1_PERSIST", "P1_PERSISTED" } -> 2
    [] at \in { "P2_SUBMIT", "P2_COLLECT" } -> 3
    [] at \in { "P2_PERSIST", "P2_PERSISTED" } -> 4
    [] at = "DONE" -> 5
    [] at \in Raised -> 6

\* the futures of the list whose worker has not returned
Unfinished(futures) ==
  InState(futures, "PENDING") \cup InState(futures, "RUNNING")

\* the step stays in the state of the run, goes to the next one, or takes
\* the early exit from PHASE1_PERSISTED to DONE
InSequence ==
  \/ RunState(pc') = RunState(pc)
  \/ RunState(pc') = RunState(pc) + 1 /\ RunState(pc') <= 5
  \/ RunState(pc) = 2 /\ RunState(pc') = 5

\* the step writes no file of a pass while a task of that pass is unfinished
PersistsAfterBatch ==
  /\ input_dir' # input_dir => Unfinished(base_futures) = {}
  /\ output_dir' # output_dir => Unfinished(costume_futures) = {}

\* the step leaves main by an exception
LeavesByException == pc \notin Raised /\ pc' \in Raised

\* C21: every step of a run stays in its state or goes to the next state of
\* INIT, PHASE1_RUNNING, PHASE1_PERSISTED, PHASE2_RUNNING, PHASE2_PERSISTED,
\* DONE, the early exit from PHASE1_PERSISTED to DONE being the one
\* exception; no file of a pass is written while a task of the pass runs.
C21_StatesInSequence == [][InSequence /\ PersistsAfterBatch]_vars

\* the same with the steps that leave main by an exception set aside
StatesInSequenceUnlessRaised ==
  [][LeavesByException \/ (InSequence /\ PersistsAfterBatch)]_vars


\* the run with its scheduling: a step is taken whenever one can be, since
\* every call of the generation client and every download returns, main
\* goes on, and the executor's threads get to run the tasks they are given
FairSpec == Spec /\ WF_vars(Next)

\* C22: every call and every download returning and the workers being
\* scheduled, every run ends in DONE, whatever succeeds and whatever fails.
C22_EveryRunReachesDone == <>(pc = "DONE")

\* every run ends, in DONE or by an exception that leaves main
EveryRunEnds == <>(pc = "DONE" \/ pc \in Raised)


(***************************************************************************)
(* The animation the converter encodes.                                    *)
(***************************************************************************)
\* the frames of an animation in the order in which it plays them
Played(animation) == << animation.first >> \o animation.append_images

\* C23: the animation saved for a sheet plays the frames split off that
\* sheet, all of them, once each and in the order of the split: the first
\* frame is the base image, the others are appended in sequence; every
\* frame is shown for 200 ms and the loop count is 0.
C23_FramesEncodedInOrder ==
  gif # NONE =>
     /\ HasSplit
     /\ Len(Played(gif)) = 4
     /\ \A k \in 1..4 : Played(gif)[k] = split_sprite_sheet(img_size)[k]
     /\ Played(gif) = frames
     /\ gif.first = frames[1]
     /\ gif.duration = 200
     /\ gif.loop = 0

\* an animation has been saved whose four frames differ from one another
C23_Witness ==
  /\ gif # NONE
  /\ converted_count >= 1
  /\ \A k, l \in 1..Len(Played(gif)) : k # l => Played(gif)[k] # Played(gif)[l]


(***************************************************************************)
(* What happens to a result after its worker has returned it.              *)
(***************************************************************************)
\* the results the workers of a list of futures have returned and main has
\* been given, as the workers returned them
Returned(futures) ==
  { futures[n].result : n \in { k \in InState(futures, "FINISHED") :
                                   futures[k].yielded } }

\* the records of a list
Records(list) == { list[k] : k \in 1..Len(list) }

\* the base name main attaches to the result of a second-pass future
Attached(future) ==
  [future.result EXCEPT !.base_filename = base_sprites[future.sprite].base_filename]

\* C24 as stated: every result main holds, of either pass, is the record
\* its worker returned, with no field added or changed afterwards.
C24_TerminalResultImmutable ==
  /\ Records(base_results) \subseteq Returned(base_futures)
  /\ Records(costume_change_results) \subseteq Returned(costume_futures)

\* C24 amended: a first-pass result is never changed after its worker has
\* returned it; a second-pass result, succeeded or failed, is changed once,
\* by main's collection loop, which adds the field base_filename (the base
\* name of the sprite the task was made for) and changes no field the
\* worker has set.
C24_OnlyBaseFilenameAdded ==
  /\ Records(base_results) \subseteq Returned(base_futures)
  /\ \A r \in Returned(costume_futures) : r.base_filename = NONE
  /\ \A k \in 1..Len(costume_change_results) :
        \E n \in InState(costume_futures, "FINISHED") :
           /\ costume_futures[n].yielded
           /\ costume_change_results[k] = Attached(costume_futures[n])
           /\ costume_change_results[k].base_filename # NONE

\* main holds a failed second-pass result to which it has added the base
\* name, next to a first-pass result
C24_Witness ==
  /\ base_results # << >>
  /\ \E k \in 1..Len(costume_change_results) :
        /\ Failed(costume_change_results[k])
        /\ costume_change_results[k].base_filename # NONE


(***************************************************************************)
(* File names: f"{timestamp}_{index:03d}_base", written out in characters. *)
(***************************************************************************)
DIGITS == << "0", "1", "2", "3", "4", "5", "6", "7", "8", "9" >>

\* str(n) for a natural number
RECURSIVE Decimal(_)
Decimal(n) ==
  IF n < 10 THEN << DIGITS[n + 1] >>
  ELSE Decimal(n \div 10) \o << DIGITS[(n % 10) + 1] >>

\* format(n, "03d"): zeros are put in front up to three characters, and a
\* longer number is left as it is
Format03d(n) ==
  LET digits == Decimal(n)
  IN  IF Len(digits) >= 3 THEN digits
      ELSE [ k \in 1..(3 - Len(digits)) |-> "0" ] \o digits

\* the characters of a base name
FileStem(name) ==
  Decimal(name[1]) \o << "_" >> \o Format03d(name[2])
     \o << "_", "b", "a", "s", "e" >>

\* timestamps and indices with one to five digits
StampSamples == { 0, 1, 9, 10, 11, 100, 1000 }
IndexSamples == { 0, 1, 9, 10, 11, 99, 100, 999, 1000, 1001, 10000 }

\* on the samples, two base names are written with the same characters only
\* when timestamp and index are the same
FileStemInjective ==
  \A t1 \in StampSamples, t2 \in StampSamples,
     i1 \in IndexSamples, i2 \in IndexSamples :
     FileStem(<< t1, i1 >>) = FileStem(<< t2, i2 >>) =>
        t1 = t2 /\ i1 = i2

\* the characters of the base names a run can make
FileStemOf ==
  [ name \in { BaseName(t, i) : t \in 0..MaxTime, i \in 0..(MaxTasks - 1) }
      |-> FileStem(name) ]

\* the base names under which a directory holds files
NamesIn(dir) == { file[1] : file \in dir }

\* no two base names of the directory have the same index or are written
\* with the same characters
DisjointNames(dir) ==
  \A a \in NamesIn(dir), b \in NamesIn(dir) :
     a # b => a[2] # b[2] /\ FileStemOf[a] # FileStemOf[b]

\* C25: the indices of the tasks of a pass are all different, and so are the
\* base names of the artifacts written to one directory: in the input and
\* in the output directory every index has one base name at most and no two
\* base names are written with the same characters, also when the
\* timestamps of two artifacts are the same.
C25_DisjointFileNames ==
  /\ FileStemInjective
  /\ OneFuturePerIndex(base_futures)
  /\ OneFuturePerIndex(costume_futures)
  /\ DisjointNames(input_dir)
  /\ DisjointNames(output_dir)
  /\ \A k, l \in 1..Len(base_sprites) :
        k # l => base_sprites[k].base_filename # base_sprites[l].base_filename
  /\ Cardinality(NamesIn(input_dir)) >= Len(base_sprites)
  /\ Cardinality(NamesIn(output_dir)) >= saved_costume_changes

\* two artifacts with the same timestamp are in both directories
C25_Witness ==
  /\ \E a \in NamesIn(input_dir), b \in NamesIn(input_dir) :
        a # b /\ a[1] = b[1]
  /\ \E a \in NamesIn(output_dir), b \in NamesIn(output_dir) :
        a # b /\ a[1] = b[1]
  /\ saved_costume_changes >= 2


(***************************************************************************)
(* The costume a second-pass task carries.                                 *)
(***************************************************************************)
\* for each subject, the number of keys that occur in its text
KeyCount == [s \in 1..Len(SUBJECTS) |-> Cardinality(KeysIn(SUBJECTS[s]))]

\* for each category, the costumes of the lists of all other categories
OtherCostumes ==
  [ character_type \in 1..Len(COSTUME_KEYS) |->
      UNION { COSTUME_CHANGES(other) :
                 other \in (1..Len(COSTUME_KEYS)) \ { character_type } } ]

\* C26: a second-pass task whose subject has a category carries a costume
\* of the list of that category, not one of another category and not the
\* generic one; the generic costume is carried exactly by the tasks for
\* whose subject the matcher returns None; the result carries the same.
C26_VariantOfMatchedCategory ==
  \A n \in 1..Len(costume_futures) :
     LET character_type == CharacterType[costume_futures[n].character_prompt]
         costume_description == costume_futures[n].costume_description
     IN  /\ character_type # 0 =>
               /\ costume_description \in COSTUME_CHANGES(character_type)
               /\ costume_description # GENERIC_COSTUME
               /\ costume_description \notin OtherCostumes[character_type]
         /\ (costume_description = GENERIC_COSTUME) <=> (character_type = 0)
         /\ costume_futures[n].state = "FINISHED" =>
               costume_futures[n].result.costume_description
                  = costume_description

\* the task of a subject in whose text two keys occur has finished, next to
\* a task with the generic costume
C26_Witness ==
  /\ \E n \in InState(costume_futures, "FINISHED") :
        /\ KeyCount[costume_futures[n].character_prompt] >= 2
        /\ costume_futures[n].costume_description # GENERIC_COSTUME
  /\ \E n \in 1..Len(costume_futures) :
        costume_futures[n].costume_description = GENERIC_COSTUME


(***************************************************************************)
(* The frames and the pixels of the sheet.                                 *)
(***************************************************************************)
\* pixel (x, y) lies in the region of the frame
Covers(frame, x, y) ==
  /\ frame.box[1] <= x /\ x < frame.box[3]
  /\ frame.box[2] <= y /\ y < frame.box[4]

\* the number of pixels of the frame
Area(frame) == FrameWidth(frame) * FrameHeight(frame)

\* the regions of two frames have no pixel in common
Apart(f, g) ==
  \/ Area(f) = 0
  \/ Area(g) = 0
  \/ f.box[3] <= g.box[1]
  \/ g.box[3] <= f.box[1]
  \/ f.box[4] <= g.box[2]
  \/ g.box[4] <= f.box[2]

\* the region of the frame lies within the sheet
Within(frame, size) ==
  /\ 0 <= frame.box[1] /\ frame.box[1] <= frame.box[3]
  /\ frame.box[3] <= size[1]
  /\ 0 <= frame.box[2] /\ frame.box[2] <= frame.box[4]
  /\ frame.box[4] <= size[2]

BuiltIn(text) ==
  { s \in 1..Len(CHARACTER_PROMPTS) : CHARACTER_PROMPTS[s] = text }

\* C28: for every one of the 35 built-in subjects the matcher returns a key
\* of the table, never None, so that the costume of its second-pass task is
\* drawn from a category and the generic costume is never used.
C28_BuiltInSubjectsAllMatch ==
  /\ Len(CHARACTER_PROMPTS) = 35
  /\ (m_type # PENDING /\ BuiltIn(m_prompt) # {}) =>
        /\ m_type \in 1..Len(COSTUME_KEYS)
        /\ KeysIn(m_prompt) # {}
        /\ \A s \in BuiltIn(m_prompt) :
              /\ CharacterType[s] = m_type
              /\ GENERIC_COSTUME
                    \notin CostumeChoices([character_prompt |-> s])

\* the matcher has returned the last key of the table for a built-in subject
C28_Witness ==
  /\ BuiltIn(m_prompt) # {}
  /\ m_type = Len(COSTUME_KEYS)


(***************************************************************************)
(* The counts main prints.                                                 *)
(***************************************************************************)
\* the base names whose image and text are both in the directory
Complete(dir) ==
  { file[1] : file \in { text \in dir : /\ text[2] = "txt"
                                        /\ << text[1], "png" >> \in dir } }

\* main is at, or past, the line that prints the count of the first pass
FirstCountPrinted ==
  pc \in { "P1_PERSISTED", "P2_SUBMIT", "P2_COLLECT", "P2_PERSIST",
           "P2_PERSISTED", "DONE" }

\* main is at, or past, the lines that print the final counts
FinalCountsPrinted ==
  \/ pc = "P2_PERSISTED"
  \/ pc = "DONE" /\ base_sprites # << >>

\* C29: the counts main prints agree: the sprites saved are as many as the
\* first-pass artifacts whose generation succeeded and whose image and text
\* are on disk, and no more than the subjects; the second-pass tasks are as
\* many as the sprites saved; the costume changes saved are as many as the
\* second-pass artifacts that succeeded and are on disk, and no more than
\* the second-pass tasks.
C29_CountsConsistent ==
  /\ FirstCountPrinted =>
        /\ Len(base_sprites) <= Len(prompts)
        /\ Len(base_sprites) = Cardinality(Complete(input_dir))
        /\ Len(base_sprites) <= Cardinality(SucceededBase)
  /\ FinalCountsPrinted =>
        /\ Len(costume_futures) = Len(base_sprites)
        /\ saved_costume_changes <= Len(costume_futures)
        /\ saved_costume_changes = Cardinality(Complete(output_dir))
        /\ saved_costume_changes
              <= Cardinality({ n \in 1..Len(costume_futures) :
                                  Succeeded(costume_futures[n].result) })

\* the final counts are printed: fewer costume changes than sprites, fewer
\* sprites than subjects, and an image without text in the output directory
C29_Witness ==
  /\ pc = "DONE"
  /\ saved_costume_changes < Len(base_sprites)
  /\ Len(base_sprites) < Len(prompts)
  /\ Complete(output_dir) # NamesIn(output_dir)


(***************************************************************************)
(* lora_video/data_generator.py: one batch of image generations, sorted by *)
(* index, each successful image downloaded and saved with its prompt.      *)
(***************************************************************************)
ASPECT_RATIOS ==
  << << "1", "6", ":", "9" >>, << "1", ":", "1" >>,
     << "4", ":", "3" >>, << "3", ":", "4" >> >>

\* the aspect ratios random.choice draws from
AspectChoices ==
  { ASPECT_RATIOS[k] : k \in 1..Min(NumAspects, Len(ASPECT_RATIOS)) }

\* s.replace(old, new) for single characters
Replace(s, old, new) ==
  [ k \in 1..Len(s) |-> IF s[k] = old THEN new ELSE s[k] ]

\* f"{timestamp}_{result['index']:03d}_{aspect_safe}"
ImageBaseName(timestamp, index, aspect_safe) ==
  << timestamp, index, aspect_safe >>

\* the record generate_image returns when replicate.run has returned
ImageSuccess(index, aspect_ratio) ==
  [ index |-> index, prompt |-> index + 1, aspect_ratio |-> aspect_ratio,
    url |-> Output(0, index), success |-> TRUE, error |-> NONE ]

\* the record generate_image returns from its except clause
ImageFailure(index) ==
  [ index |-> index, prompt |-> index + 1, aspect_ratio |-> NONE,
    url |-> NONE, success |-> FALSE, error |-> ERROR ]

SingleInit ==
  /\ PipelineIdle
  /\ MatcherIdle
  /\ DecoderIdle
  /\ PoolIdle
  /\ img_prompts \in 0..MaxTasks
  /\ img_pc = "INIT"
  /\ img_max_workers = 0
  /\ img_futures = << >>
  /\ img_results = << >>
  /\ saved_count = 0
  /\ img_cursor = 0
  /\ img_base_name = NONE
  /\ img_now = 0
  /\ generated_images = {}
  /\ img_downloads = {}

\* max_workers = min(len(PROMPTS), 10) and the executor is made
Img_Start ==
  /\ img_pc = "INIT"
  /\ img_max_workers' = Min(img_prompts, MAX_CONCURRENCY)
  /\ img_pc' = EnterBatch(img_max_workers', img_prompts, "SUBMIT", "COLLECT")
  /\ UNCHANGED << img_prompts, img_futures, img_results, saved_count, img_cursor,
                  img_base_name, img_now, generated_images, img_downloads >>
  /\ UNCHANGED << pipeline, matcher, decoder, pool >>

\* executor.submit(generate_image, prompt, i) for the next prompt
Img_Submit ==
  /\ img_pc = "SUBMIT"
  /\ LET i == Len(img_futures)
     IN  /\ img_futures' = Append(img_futures,
                [ index |-> i, state |-> "PENDING", yielded |-> FALSE,
                  aspect_ratio |-> NONE, result |-> ImageFailure(-1) ])
         /\ img_pc' = IF i + 1 = img_prompts THEN "COLLECT" ELSE "SUBMIT"
  /\ UNCHANGED << img_prompts, img_max_workers, img_results, saved_count,
                  img_cursor, img_base_name, img_now, generated_images,
                  img_downloads >>
  /\ UNCHANGED << pipeline, matcher, decoder, pool >>

\* a worker thread enters generate_image, draws the aspect ratio and sends
\* it in its request
ImgWorker_Start(n) ==
  /\ CanTake(img_futures, n, img_max_workers)
  /\ \E aspect_ratio \in AspectChoices :
        img_futures' = [img_futures EXCEPT ![n].state = "RUNNING",
                                           ![n].aspect_ratio = aspect_ratio]
  /\ UNCHANGED << img_prompts, img_pc, img_max_workers, img_results, saved_count,
                  img_cursor, img_base_name, img_now, generated_images,
                  img_downloads >>
  /\ UNCHANGED << pipeline, matcher, decoder, pool >>

\* replicate.run returns an image reference
ImgWorker_Succeeds(n) ==
  /\ n \in InState(img_futures, "RUNNING")
  /\ img_futures' = [img_futures EXCEPT
        ![n].state = "FINISHED",
        ![n].result = ImageSuccess(img_futures[n]["index"],
                                   img_futures[n].aspect_ratio)]
  /\ UNCHANGED << img_prompts, img_pc, img_max_workers, img_results, saved_count,
                  img_cursor, img_base_name, img_now, generated_images,
                  img_downloads >>
  /\ UNCHANGED << pipeline, matcher, decoder, pool >>

\* replicate.run raises, and the except clause returns the failure record
ImgWorker_Fails(n) ==
  /\ n \in InState(img_futures, "RUNNING")
  /\ img_futures' = [img_futures EXCEPT
        ![n].state = "FINISHED",
        ![n].result = ImageFailure(img_futures[n]["index"])]
  /\ UNCHANGED << img_prompts, img_pc, img_max_workers, img_results, saved_count,
                  img_cursor, img_base_name, img_now, generated_images,
                  img_downloads >>
  /\ UNCHANGED << pipeline, matcher, decoder, pool >>

\* one iteration of `for future in as_completed(future_to_index)`
Img_Collect(n) ==
  /\ img_pc = "COLLECT"
  /\ n \in InState(img_futures, "FINISHED")
  /\ ~img_futures[n].yielded
  /\ img_futures' = [img_futures EXCEPT ![n].yielded = TRUE]
  /\ img_results' = Append(img_results, img_futures[n].result)
  /\ UNCHANGED << img_prompts, img_pc, img_max_workers, saved_count,
                  img_cursor, img_base_name, img_now, generated_images,
                  img_downloads >>
  /\ UNCHANGED << pipeline, matcher, decoder, pool >>

\* as_completed is exhausted: the with block ends and img_results is sorted
Img_Sort ==
  /\ img_pc = "COLLECT"
  /\ \A n \in 1..Len(img_futures) : img_futures[n].yielded
  /\ img_results' = SortByIndex(img_results)
  /\ img_cursor' = 1
  /\ img_pc' = "PERSIST"
  /\ UNCHANGED << img_prompts, img_max_workers, img_futures, saved_count,
                  img_base_name, img_now, generated_images, img_downloads >>
  /\ UNCHANGED << pipeline, matcher, decoder, pool >>

\* the download loop passes a failed result: "Skipped (generation failed)"
Img_Skip ==
  /\ img_pc = "PERSIST"
  /\ img_cursor <= Len(img_results)
  /\ img_base_name = NONE
  /\ ~img_results[img_cursor].success
  /\ img_cursor' = img_cursor + 1
  /\ UNCHANGED << img_prompts, img_pc, img_max_workers, img_futures, img_results,
                  saved_count, img_base_name, img_now, generated_images,
                  img_downloads >>
  /\ UNCHANGED << pipeline, matcher, decoder, pool >>

\* the download loop names the files of a successful result after the clock,
\* the index and the aspect ratio of the result, and downloads the image
Img_Download ==
  /\ img_pc = "PERSIST"
  /\ img_cursor <= Len(img_results)
  /\ img_base_name = NONE
  /\ img_results[img_cursor].success
  /\ \E timestamp \in img_now..Min(img_now + 1, MaxTime),
        outcome \in DownloadOutcomes :
        LET aspect_safe == Replace(img_results[img_cursor].aspect_ratio, ":", "x")
            name == ImageBaseName(timestamp, img_results[img_cursor]["index"],
                                  aspect_safe)
        IN  /\ img_now' = timestamp
            /\ generated_images' = AfterDownload(generated_images, name, outcome)
            /\ img_downloads' = img_downloads
                 \cup { << img_results[img_cursor]["index"], outcome >> }
            /\ IF outcome = "ok"
               THEN img_base_name' = name /\ img_cursor' = img_cursor
               ELSE img_base_name' = NONE /\ img_cursor' = img_cursor + 1
  /\ UNCHANGED << img_prompts, img_pc, img_max_workers, img_futures, img_results,
                  saved_count >>
  /\ UNCHANGED << pipeline, matcher, decoder, pool >>

\* text_filepath.write_text succeeds and the artifact is counted
Img_WriteText ==
  /\ img_pc = "PERSIST"
  /\ img_base_name # NONE
  /\ generated_images' = generated_images \cup { << img_base_name, "txt" >> }
  /\ saved_count' = saved_count + 1
  /\ img_cursor' = img_cursor + 1
  /\ img_base_name' = NONE
  /\ UNCHANGED << img_prompts, img_pc, img_max_workers, img_futures, img_results,
                  img_now, img_downloads >>
  /\ UNCHANGED << pipeline, matcher, decoder, pool >>

\* text_filepath.write_text raises: nothing in main catches it
Img_WriteTextRaises ==
  /\ img_pc = "PERSIST"
  /\ img_base_name # NONE
  /\ \E created \in BOOLEAN :
        generated_images' =
           IF created
           THEN generated_images \cup { << img_base_name, "txt" >> }
           ELSE generated_images
  /\ img_pc' = "OSError"
  /\ UNCHANGED << img_prompts, img_max_workers, img_futures, img_results,
                  saved_count, img_cursor, img_base_name, img_now,
                  img_downloads >>
  /\ UNCHANGED << pipeline, matcher, decoder, pool >>

\* the download loop is over and the total is printed
Img_Finish ==
  /\ img_pc = "PERSIST"
  /\ img_cursor > Len(img_results)
  /\ img_pc' = "DONE"
  /\ UNCHANGED << img_prompts, img_max_workers, img_futures, img_results,
                  saved_count, img_cursor, img_base_name, img_now,
                  generated_images, img_downloads >>
  /\ UNCHANGED << pipeline, matcher, decoder, pool >>

SingleNext ==
  \/ Img_Start
  \/ Img_Submit
  \/ \E n \in 1..MaxTasks :
        \/ ImgWorker_Start(n)
        \/ ImgWorker_Succeeds(n)
        \/ ImgWorker_Fails(n)
        \/ Img_Collect(n)
  \/ Img_Sort
  \/ Img_Skip
  \/ Img_Download
  \/ Img_WriteText
  \/ Img_WriteTextRaises
  \/ Img_Finish

SingleSpec == SingleInit /\ [][SingleNext]_vars


\* the positions of results the download loop has dealt with, the one at
\* which an exception ended the run included
ImgDealt ==
  { k \in 1..Len(img_results) :
       \/ img_pc = "DONE"
       \/ img_pc = "PERSIST" /\ k < img_cursor
       \/ img_pc = "OSError" /\ k <= img_cursor }

\* the directory holds an image and a text file under one base name of index i
PairPersisted(i) ==
  \E name \in Complete(generated_images) : name[2] = i

\* download_image has been called for index i
DownloadAttempted(i) == \E outcome \in DownloadOutcomes :
                           << i, outcome >> \in img_downloads

\* a pair is there for a result exactly if it was generated and downloaded
PairIffGeneratedAndDownloaded(k) ==
  PairPersisted(img_results[k]["index"])
    <=> /\ img_results[k].success
        /\ << img_results[k]["index"], "ok" >> \in img_downloads

\* no download is attempted for a failed generation
FailedNeverDownloaded ==
  \A n \in 1..Len(img_futures) :
     (img_futures[n].state = "FINISHED" /\ ~img_futures[n].result.success)
        => ~DownloadAttempted(img_futures[n]["index"])

\* every file name carries the aspect ratio its task sent in its request,
\* with the colon replaced
NameCarriesRequestedAspect ==
  \A name \in NamesIn(generated_images) :
     name[3] = Replace(img_futures[name[2] + 1].aspect_ratio, ":", "x")

\* C30: in the single-pass generator a pair of files is persisted for an
\* index exactly if the generation of that index succeeded and its image
\* download succeeded; a failed generation is passed without a download
\* attempt; and the aspect ratio in the base name is the one sent in the
\* generation request of that task.
C30_PairIffGeneratedAndDownloaded ==
  /\ \A k \in ImgDealt : PairIffGeneratedAndDownloaded(k)
  /\ FailedNeverDownloaded
  /\ NameCarriesRequestedAspect

\* the same, the result at which write_text raised set aside
PairIffUnlessRaised ==
  /\ \A k \in ImgDealt :
        (img_pc = "OSError" /\ k = img_cursor)
           \/ PairIffGeneratedAndDownloaded(k)
  /\ FailedNeverDownloaded
  /\ NameCarriesRequestedAspect

\* a run has saved a pair after a download that failed and left a file
SinglePassCases ==
  /\ img_pc = "DONE"
  /\ saved_count > 0
  /\ << 0, "partial" >> \in img_downloads
  /\ \E name \in NamesIn(generated_images) : name[3] = << "1", "6", "x", "9" >>

====
